---------------------------- MODULE Spec2Model ----------------------------
(***************************************************************************)
(* The per-client DSP engine of owrx/dsp.py: ClientDemodulatorChain (the   *)
(* pipeline graph) and DspManager (the per-client controller).             *)
(*                                                                         *)
(* The chain is one record holding the fields of ClientDemodulatorChain    *)
(* together with the last values its stages received.  Every method is an  *)
(* operator from chain records to chain records, each statement of the     *)
(* method one LET step; a step is skipped once an exception is pending     *)
(* (field exc), as Python skips the rest of a method after a raise.        *)
(***************************************************************************)
EXTENDS Integers, Naturals, Sequences, FiniteSets, TLC

VARIABLES
    chain,          \* DspManager.chain: the ClientDemodulatorChain, or NoChain
    audioOutput,    \* DspManager.audioOutput
    readers,        \* DspManager.readers: channel name -> Reader
    props,          \* the PropertyStack keys the handlers read back
    client,         \* what the last handler wrote to the client connection
    op,             \* the operation that ran last, with its argument
    ret,            \* return values of the queried pure functions
    mstate,         \* DspManager lifecycle fields
    threads         \* control-plane threads: position inside their handler

vars == <<chain, audioOutput, readers, props, client, op, ret, mstate, threads>>

----------------------------------------------------------------------------
(* Bounds of the model *)

\* output_rate / hd_output_rate / samp_rate take the values 1..MaxRate
MaxRate == 2
\* center_freq, offset_freq, secondary_offset_freq take the values 0..MaxFreq
MaxFreq == 1
\* squelch_level takes the values -150 .. -150 + MaxLevel
MaxLevel == 1
\* the number of setter calls in a row SpecSetters follows
MaxCalls == 2
\* the number of calls of start() SpecStart follows
MaxStarts == 3

----------------------------------------------------------------------------
(* Values *)

\* Python's None where an object reference is expected
None == [kind |-> "None"]
\* Python's None where a frequency is expected
NoFreq == -1
\* squelch level that disables the squelch
SquelchOff == -150

COMPLEX_FLOAT == "COMPLEX_FLOAT"
FLOAT == "FLOAT"
SHORT == "SHORT"
CHAR == "CHAR"

Rates == 1..MaxRate
Freqs == 0..MaxFreq
Levels == {SquelchOff + k : k \in 0..MaxLevel}

\* the fixed rates demodulator classes declare (distinct from each other so
\* that primary and secondary can disagree)
FixedRateA == 3
FixedRateB == 4

(***************************************************************************)
(* Demodulator objects.  The demodulator classes are outside these         *)
(* sources; dsp.py only tests which capability classes an object           *)
(* implements (isinstance) and calls the capability's getters.  A class    *)
(* is therefore the record of what those tests and getters return:         *)
(*   fixedIf    FixedIfSampleRateChain.getFixedIfSampleRate(), 0 = absent  *)
(*   fixedAudio FixedAudioRateChain.getFixedAudioRate(), 0 = absent        *)
(*   hd         HdAudio                                                    *)
(*   squelch    supportsSquelch()                                          *)
(*   dialRx     DialFrequencyReceiver                                      *)
(*   fmt        getOutputFormat() (primary) / getInputFormat() (secondary) *)
(*   bandwidth  SecondarySelectorChain.getBandwidth(), 0 = absent          *)
(*   fftShown   isSecondaryFftShown()                                      *)
(*   deemph, rds, meta   DeemphasisTauChain, RdsChain, MetaProvider        *)
(* An object is a class plus an identity (id) plus the last values it was  *)
(* sent: dial (setDialFrequency), rate (setSampleRate), tau, rdsRbds,      *)
(* metaWriter, and for a secondary what its reader and writer are bound    *)
(* to.  Writers are buffers, named by a number; 0 is Python's None.        *)
(***************************************************************************)
\* a freshly constructed primary demodulator: nothing received yet
NewPrimary(class, id) ==
    [kind |-> "demod", caps |-> class, id |-> id, dial |-> NoFreq, rate |-> 0,
     tau |-> NoFreq, rdsRbds |-> FALSE, metaWriter |-> 0,
     slotFilter |-> NoFreq, serviceId |-> NoFreq]

\* a freshly constructed secondary demodulator: nothing received, not wired
NewSecondary(class, id) ==
    [kind |-> "demod", caps |-> class, id |-> id, dial |-> NoFreq, rate |-> 0,
     reader |-> [src |-> "none"], writer |-> 0]

\* `a is b` on object references
Is(a, b) ==
    IF a = None \/ b = None THEN a = b ELSE a.caps = b.caps /\ a.id = b.id

\* the identity of an object, as recorded when it is stopped
Ident(d) == [what |-> "demod", caps |-> d.caps, id |-> d.id]

\* isinstance(d, FixedIfSampleRateChain) etc.; isinstance(None, X) is False
IsFixedIfSampleRateChain(d) == d # None /\ d.caps.fixedIf # 0
IsFixedAudioRateChain(d) == d # None /\ d.caps.fixedAudio # 0
IsHdAudio(d) == d # None /\ d.caps.hd
IsDialFrequencyReceiver(d) == d # None /\ d.caps.dialRx
IsSecondarySelectorChain(d) == d # None /\ d.caps.bandwidth # 0
IsDeemphasisTauChain(d) == d # None /\ d.caps.deemph
IsRdsChain(d) == d # None /\ d.caps.rds
IsMetaProvider(d) == d # None /\ d.caps.meta
IsSlotFilterChain(d) == d # None /\ d.caps.slots
IsAudioServiceSelector(d) == d # None /\ d.caps.services

----------------------------------------------------------------------------
(* Exceptions: exc is "none" while the method runs normally *)

Raised(c) == c.exc # "none"
Raise(c, e) == IF Raised(c) THEN c ELSE [c EXCEPT !.exc = e]

----------------------------------------------------------------------------
(* ClientDemodulatorChain: rate derivation *)

\* line 152: the condition under which _getSelectorOutputRate raises ValueError
_getSelectorOutputRateRaises(c) ==
    /\ ~IsFixedIfSampleRateChain(c.demodulator)
    /\ IsFixedAudioRateChain(c.secondaryDemodulator)
    /\ IsFixedAudioRateChain(c.demodulator)
    /\ c.demodulator.caps.fixedAudio # c.secondaryDemodulator.caps.fixedAudio

\* mutant: the secondary's fixed audio rate takes precedence over the fixed IF rate
_getSelectorOutputRateSecondaryFirst(c) ==
    IF IsFixedAudioRateChain(c.secondaryDemodulator)
    THEN c.secondaryDemodulator.caps.fixedAudio
    ELSE IF IsFixedIfSampleRateChain(c.demodulator)
    THEN c.demodulator.caps.fixedIf
    ELSE IF IsHdAudio(c.demodulator) THEN c.hdOutputRate ELSE c.outputRate

_getSelectorOutputRate(c) ==
    IF IsFixedIfSampleRateChain(c.demodulator)
    THEN c.demodulator.caps.fixedIf
    ELSE IF IsFixedAudioRateChain(c.secondaryDemodulator)
    THEN c.secondaryDemodulator.caps.fixedAudio
    ELSE IF IsHdAudio(c.demodulator) THEN c.hdOutputRate ELSE c.outputRate

_getClientAudioInputRate(c) ==
    IF IsFixedAudioRateChain(c.demodulator)
    THEN c.demodulator.caps.fixedAudio
    ELSE IF IsFixedAudioRateChain(c.secondaryDemodulator)
    THEN c.secondaryDemodulator.caps.fixedAudio
    ELSE IF IsHdAudio(c.demodulator) THEN c.hdOutputRate ELSE c.outputRate

----------------------------------------------------------------------------
(* Stage calls.  calls counts the calls the chain issued to its stages     *)
(* during the current operation, stopped the objects it stopped, events    *)
(* the notifications sent to secondaryDspEventReceiver.                    *)

BeginOp(c) == [c EXCEPT !.calls = 0, !.stopped = {}, !.exc = "none", !.events = <<>>]

Stop(c, ident) ==
    IF Raised(c) THEN c
    ELSE [c EXCEPT !.calls = @ + 1, !.stopped = @ \cup {ident}]

SelectorSetOutputRate(c, r) ==
    IF Raised(c) THEN c
    ELSE [c EXCEPT !.selector.outputRate = r, !.calls = @ + 1]

ClientAudioSetInputRate(c, r) ==
    IF Raised(c) THEN c
    ELSE [c EXCEPT !.clientAudioChain.inputRate = r, !.calls = @ + 1]

ClientAudioSetClientRate(c, r) ==
    IF Raised(c) THEN c
    ELSE [c EXCEPT !.clientAudioChain.clientRate = r, !.calls = @ + 1]

\* self.demodulator.setSampleRate(r): AttributeError when there is no primary
PrimarySetSampleRate(c, r) ==
    IF Raised(c) THEN c
    ELSE IF c.demodulator = None THEN Raise(c, "AttributeError")
    ELSE [c EXCEPT !.demodulator.rate = r, !.calls = @ + 1]

SecondarySetSampleRate(c, r) ==
    IF Raised(c) THEN c
    ELSE [c EXCEPT !.secondaryDemodulator.rate = r, !.calls = @ + 1]

(***************************************************************************)
(* ClientAudioChain.setFormat (csdr/chain/clientaudio.py, outside these    *)
(* sources; spec 4.4 set_demodulator step 1): the chain adopts the new     *)
(* input format; its reader on the audio buffer has the old format and is  *)
(* rejected with ValueError, which setDemodulator swallows (lines 98-103). *)
(***************************************************************************)
ClientAudioSetFormat(c, fmt) ==
    IF Raised(c) \/ fmt = c.clientAudioChain.format THEN c
    ELSE [c EXCEPT !.clientAudioChain.format = fmt, !.calls = @ + 1]

\* DummyDemodulator(format) and a demodulator, as the stage at index 1
DummyDemodulator(fmt) == [dummy |-> TRUE, format |-> fmt, ident |-> [what |-> "dummy"]]
AsWorker(d) == [dummy |-> FALSE, format |-> d.caps.fmt, ident |-> Ident(d)]

----------------------------------------------------------------------------
(* ClientDemodulatorChain *)

FftFormat(compression) == IF compression = "adpcm" THEN CHAR ELSE FLOAT

\* lines 40-70; wfmDeemphasisTau in microseconds (50e-6 s), the overlap
\* factor in percent (0.3)
__init__(demod, sampleRate, outputRate, hdOutputRate) ==
    [sampleRate |-> sampleRate, outputRate |-> outputRate, hdOutputRate |-> hdOutputRate,
     selector |-> [inputRate |-> sampleRate, outputRate |-> outputRate,
                   squelchLevel |-> SquelchOff, frequencyOffset |-> NoFreq],
     audioBuffer |-> [format |-> demod.caps.fmt, id |-> 0],
     demodulator |-> demod,
     workers1 |-> AsWorker(demod),
     secondaryDemodulator |-> None,
     centerFrequency |-> NoFreq, frequencyOffset |-> NoFreq,
     wfmDeemphasisTau |-> 50, rdsRbds |-> FALSE,
     clientAudioChain |->
        [format |-> demod.caps.fmt,
         inputRate |-> IF IsFixedAudioRateChain(demod) THEN demod.caps.fixedAudio ELSE outputRate,
         clientRate |-> IF IsHdAudio(demod) THEN hdOutputRate ELSE outputRate],
     secondaryFftSize |-> 2048, secondaryFftOverlapFactor |-> 30,
     secondaryFftFps |-> 9, secondaryFftCompression |-> "adpcm",
     secondaryFftChain |-> None,
     metaWriter |-> 0, secondaryFftWriter |-> 0, secondaryWriter |-> 0,
     squelchLevel |-> SquelchOff,
     secondarySelector |-> None, secondaryFrequencyOffset |-> NoFreq,
     running |-> TRUE,
     calls |-> 0, stopped |-> {}, exc |-> "none", events |-> <<>>]

\* Chain.stop() (csdr/chain, spec 5: cascades to the workers), then lines 74-79
stop(c) ==
    LET c1 == [c EXCEPT !.running = FALSE, !.calls = @ + 1,
                        !.stopped = @ \cup {[what |-> "selector"], c.workers1.ident,
                                            [what |-> "clientAudioChain"]}]
        c2 == IF c1.secondaryFftChain # None
              THEN [Stop(c1, [what |-> "fft"]) EXCEPT !.secondaryFftChain = None]
              ELSE c1
        c3 == IF c2.secondaryDemodulator # None
              THEN [Stop(c2, Ident(c2.secondaryDemodulator)) EXCEPT !.secondaryDemodulator = None]
              ELSE c2
    IN c3

\* lines 84-90: the buffer between workers[1] and the ClientAudioChain
_connect(c, w1) ==
    IF c.audioBuffer.format # w1.format
    THEN LET nb == [format |-> w1.format, id |-> 1 - c.audioBuffer.id]
             c1 == [c EXCEPT !.audioBuffer = nb]
         IN IF c1.secondaryDemodulator # None
               /\ c1.secondaryDemodulator.caps.fmt # COMPLEX_FLOAT
            THEN [c1 EXCEPT !.secondaryDemodulator.reader = [src |-> "audio", id |-> nb.id],
                            !.calls = @ + 1]
            ELSE c1
    ELSE c

(***************************************************************************)
(* Chain.replace(1, w) (csdr/chain, spec 4.1): stop workers[1], install w, *)
(* reconnect to both neighbours through _connect; a neighbour whose format *)
(* differs is a ValueError, raised after both connections were attempted.  *)
(***************************************************************************)
replace(c, w) ==
    IF Raised(c) THEN c
    ELSE LET c1 == Stop(c, c.workers1.ident)
             c2 == [c1 EXCEPT !.workers1 = w, !.calls = @ + 1]
             c3 == _connect(c2, w)
         IN IF w.format # c3.clientAudioChain.format THEN Raise(c3, "ValueError") ELSE c3

_updateDialFrequency(c) ==
    IF Raised(c) \/ c.centerFrequency = NoFreq \/ c.frequencyOffset = NoFreq THEN c
    ELSE LET dialFrequency == c.centerFrequency + c.frequencyOffset
             c1 == IF IsDialFrequencyReceiver(c.demodulator)
                   THEN [c EXCEPT !.demodulator.dial = dialFrequency, !.calls = @ + 1]
                   ELSE c
             dial2 == IF c.secondarySelector # None
                         /\ c.secondaryFrequencyOffset \notin {NoFreq, 0}
                      THEN dialFrequency + c.secondaryFrequencyOffset
                      ELSE dialFrequency
         IN IF IsDialFrequencyReceiver(c1.secondaryDemodulator)
            THEN [c1 EXCEPT !.secondaryDemodulator.dial = dial2, !.calls = @ + 1]
            ELSE c1

_syncSquelch(c) ==
    IF Raised(c) THEN c
    ELSE IF (c.demodulator # None /\ ~c.demodulator.caps.squelch)
            \/ (c.secondaryDemodulator # None /\ ~c.secondaryDemodulator.caps.squelch)
    THEN [c EXCEPT !.selector.squelchLevel = SquelchOff, !.calls = @ + 1]
    ELSE [c EXCEPT !.selector.squelchLevel = c.squelchLevel, !.calls = @ + 1]

_createSecondaryFftChain(c) ==
    IF Raised(c) THEN c
    ELSE LET c1 == IF c.secondaryFftChain # None THEN Stop(c, [what |-> "fft"]) ELSE c
         IN IF _getSelectorOutputRateRaises(c1) THEN Raise(c1, "ValueError")
            ELSE [c1 EXCEPT !.secondaryFftChain =
                      [kind |-> "fft", sampleRate |-> _getSelectorOutputRate(c1),
                       size |-> c1.secondaryFftSize,
                       overlap |-> c1.secondaryFftOverlapFactor,
                       fps |-> c1.secondaryFftFps,
                       compression |-> c1.secondaryFftCompression,
                       format |-> FftFormat(c1.secondaryFftCompression),
                       reader |-> "selectorBuffer",
                       writer |-> c1.secondaryFftWriter],
                     !.calls = @ + 1]

\* lines 186-191 without the else of lines 192-193: a secondary selector in
\* place outlives the secondary it was built for
setSecondaryDemodulator_selectorKept(c, rate) ==
    IF Raised(c) THEN c
    ELSE IF IsSecondarySelectorChain(c.secondaryDemodulator)
    THEN LET bandwidth == c.secondaryDemodulator.caps.bandwidth
         IN [c EXCEPT !.secondarySelector =
                          [kind |-> "secsel", rate |-> rate, bandwidth |-> bandwidth,
                           reader |-> "selectorBuffer",
                           frequencyOffset |-> c.secondaryFrequencyOffset],
                      !.events = Append(@, [bw |-> bandwidth]),
                      !.calls = @ + 1]
    ELSE c

\* lines 186-193
setSecondaryDemodulator_selector(c, rate) ==
    IF Raised(c) THEN c
    ELSE IF IsSecondarySelectorChain(c.secondaryDemodulator)
    THEN LET bandwidth == c.secondaryDemodulator.caps.bandwidth
         IN [c EXCEPT !.secondarySelector =
                          [kind |-> "secsel", rate |-> rate, bandwidth |-> bandwidth,
                           reader |-> "selectorBuffer",
                           frequencyOffset |-> c.secondaryFrequencyOffset],
                      !.events = Append(@, [bw |-> bandwidth]),
                      !.calls = @ + 1]
    ELSE [c EXCEPT !.secondarySelector = None]

\* lines 195-205 without the test of the input format: a secondary without
\* a secondary selector always reads the selector buffer
setSecondaryDemodulator_wireSelector(c, rate) ==
    IF Raised(c) \/ c.secondaryDemodulator = None THEN c
    ELSE LET c1 == SecondarySetSampleRate(c, rate)
             src == IF c1.secondarySelector # None THEN [src |-> "secsel"]
                    ELSE [src |-> "selector"]
         IN [c1 EXCEPT !.secondaryDemodulator.reader = src,
                       !.secondaryDemodulator.writer = c1.secondaryWriter,
                       !.calls = @ + 2]

\* lines 195-205
setSecondaryDemodulator_wire(c, rate) ==
    IF Raised(c) \/ c.secondaryDemodulator = None THEN c
    ELSE LET c1 == SecondarySetSampleRate(c, rate)
             src == IF c1.secondarySelector # None THEN [src |-> "secsel"]
                    ELSE IF c1.secondaryDemodulator.caps.fmt = COMPLEX_FLOAT
                    THEN [src |-> "selector"]
                    ELSE [src |-> "audio", id |-> c1.audioBuffer.id]
         IN [c1 EXCEPT !.secondaryDemodulator.reader = src,
                       !.secondaryDemodulator.writer = c1.secondaryWriter,
                       !.calls = @ + 2]

\* lines 207-216 without the test of isSecondaryFftShown(): every secondary
\* gets an FFT chain
setSecondaryDemodulator_fftAlways(c, rate) ==
    IF Raised(c) THEN c
    ELSE LET shown == c.secondaryDemodulator # None
             c1 == IF ~shown /\ c.secondaryFftChain # None
                   THEN [Stop(c, [what |-> "fft"]) EXCEPT !.secondaryFftChain = None]
                   ELSE c
             c2 == IF shown /\ c1.secondaryFftChain = None
                   THEN _createSecondaryFftChain(c1)
                   ELSE c1
         IN IF ~Raised(c2) /\ c2.secondaryFftChain # None
            THEN [c2 EXCEPT !.secondaryFftChain.sampleRate = rate,
                            !.events = Append(@, [rate |-> rate]),
                            !.calls = @ + 1]
            ELSE c2

\* lines 207-216
setSecondaryDemodulator_fft(c, rate) ==
    IF Raised(c) THEN c
    ELSE LET shown == c.secondaryDemodulator # None /\ c.secondaryDemodulator.caps.fftShown
             c1 == IF ~shown /\ c.secondaryFftChain # None
                   THEN [Stop(c, [what |-> "fft"]) EXCEPT !.secondaryFftChain = None]
                   ELSE c
             c2 == IF shown /\ c1.secondaryFftChain = None
                   THEN _createSecondaryFftChain(c1)
                   ELSE c1
         IN IF ~Raised(c2) /\ c2.secondaryFftChain # None
            THEN [c2 EXCEPT !.secondaryFftChain.sampleRate = rate,
                            !.events = Append(@, [rate |-> rate]),
                            !.calls = @ + 1]
            ELSE c2

setSecondaryDemodulator(c, demod) ==
    IF Raised(c) \/ Is(demod, c.secondaryDemodulator) THEN c
    ELSE LET c1 == IF c.secondaryDemodulator # None
                   THEN Stop(c, Ident(c.secondaryDemodulator))
                   ELSE c
             c2 == [c1 EXCEPT !.secondaryDemodulator = demod]
             c3 == IF _getSelectorOutputRateRaises(c2) THEN Raise(c2, "ValueError") ELSE c2
             rate == _getSelectorOutputRate(c2)
             c4 == SelectorSetOutputRate(c3, rate)
             clientRate == _getClientAudioInputRate(c2)
             c5 == ClientAudioSetInputRate(c4, clientRate)
             c6 == IF c5.demodulator # None THEN PrimarySetSampleRate(c5, clientRate) ELSE c5
             c7 == _syncSquelch(_updateDialFrequency(c6))
             c8 == setSecondaryDemodulator_selector(c7, rate)
             c9 == setSecondaryDemodulator_wire(c8, rate)
         IN setSecondaryDemodulator_fft(c9, rate)

\* lines 95-103: the identity test and the attempt to push the new format
setDemodulator_format(c, demodulator) ==
    ClientAudioSetFormat(c, demodulator.caps.fmt)

\* mutant: lines 107-125 without the stop of lines 105-106
setDemodulator_adoptUnstopped(c, demodulator) ==
    LET c2 == [c EXCEPT !.demodulator = demodulator]
        c3 == IF _getSelectorOutputRateRaises(c2) THEN Raise(c2, "ValueError") ELSE c2
        c4 == SelectorSetOutputRate(c3, _getSelectorOutputRate(c2))
        c5 == PrimarySetSampleRate(c4, _getClientAudioInputRate(c2))
    IN _syncSquelch(_updateDialFrequency(c5))

\* lines 105-125: stop the old primary, adopt the new one, push its parameters
setDemodulator_adopt(c, demodulator) ==
    LET c1 == IF c.demodulator # None THEN Stop(c, Ident(c.demodulator)) ELSE c
        c2 == [c1 EXCEPT !.demodulator = demodulator]
        c3 == IF _getSelectorOutputRateRaises(c2) THEN Raise(c2, "ValueError") ELSE c2
        c4 == SelectorSetOutputRate(c3, _getSelectorOutputRate(c2))
        c5 == PrimarySetSampleRate(c4, _getClientAudioInputRate(c2))
        c6 == IF ~Raised(c5) /\ IsDeemphasisTauChain(c5.demodulator)
              THEN [c5 EXCEPT !.demodulator.tau = c5.wfmDeemphasisTau, !.calls = @ + 1]
              ELSE c5
        c7 == IF ~Raised(c6) /\ IsRdsChain(c6.demodulator)
              THEN [c6 EXCEPT !.demodulator.rdsRbds = c6.rdsRbds, !.calls = @ + 1]
              ELSE c6
        c8 == _syncSquelch(_updateDialFrequency(c7))
    IN IF ~Raised(c8) /\ c8.metaWriter # 0 /\ IsMetaProvider(c8.demodulator)
       THEN [c8 EXCEPT !.demodulator.metaWriter = c8.metaWriter, !.calls = @ + 1]
       ELSE c8

\* lines 127-131: install the new primary at index 1, finalize the audio rates
setDemodulator_replace(c) ==
    LET c1 == replace(c, AsWorker(c.demodulator))
        c2 == ClientAudioSetInputRate(c1, _getClientAudioInputRate(c))
    IN ClientAudioSetClientRate(c2, IF IsHdAudio(c.demodulator)
                                      THEN c.hdOutputRate ELSE c.outputRate)

setDemodulator(c, demodulator) ==
    IF Raised(c) \/ Is(demodulator, c.demodulator) THEN c
    ELSE setDemodulator_replace(
            setDemodulator_adopt(setDemodulator_format(c, demodulator), demodulator))

\* line 141: the dummy takes the place of the primary
stopDemodulator_dummy(c) ==
    replace(c, DummyDemodulator(c.demodulator.caps.fmt))

\* lines 143-146
stopDemodulator_clear(c) ==
    LET c1 == Stop(c, Ident(c.demodulator))
        c2 == IF Raised(c1) THEN c1 ELSE [c1 EXCEPT !.demodulator = None]
    IN setSecondaryDemodulator(c2, None)

stopDemodulator(c) ==
    IF Raised(c) \/ c.demodulator = None THEN c
    ELSE stopDemodulator_clear(stopDemodulator_dummy(c))

\* mutant: without the test of line 241
setFrequencyOffsetAlways(c, offset) ==
    IF Raised(c) THEN c
    ELSE _updateDialFrequency(
            [c EXCEPT !.frequencyOffset = offset,
                      !.selector.frequencyOffset = offset, !.calls = @ + 1])

setFrequencyOffset(c, offset) ==
    IF Raised(c) \/ offset = c.frequencyOffset THEN c
    ELSE _updateDialFrequency(
            [c EXCEPT !.frequencyOffset = offset,
                      !.selector.frequencyOffset = offset, !.calls = @ + 1])

setCenterFrequency(c, frequency) ==
    IF Raised(c) \/ frequency = c.centerFrequency THEN c
    ELSE _updateDialFrequency([c EXCEPT !.centerFrequency = frequency])

setSquelchLevel(c, level) ==
    IF Raised(c) \/ level = c.squelchLevel THEN c
    ELSE _syncSquelch([c EXCEPT !.squelchLevel = level])

\* lines 299-306 without the test of line 300: the rate is pushed to the
\* selector and the demodulators under every primary
_updateDemodulatorOutputRateAny(c, outputRate) ==
    LET s1 == SelectorSetOutputRate(c, outputRate)
        s2 == PrimarySetSampleRate(s1, outputRate)
        c1 == IF ~Raised(s2) /\ s2.secondaryDemodulator # None
              THEN SecondarySetSampleRate(s2, outputRate)
              ELSE s2
    IN IF ~IsFixedAudioRateChain(c1.demodulator)
       THEN ClientAudioSetClientRate(c1, outputRate)
       ELSE c1

_updateDemodulatorOutputRate(c, outputRate) ==
    LET c1 == IF ~IsFixedIfSampleRateChain(c.demodulator)
              THEN LET s1 == SelectorSetOutputRate(c, outputRate)
                       s2 == PrimarySetSampleRate(s1, outputRate)
                   IN IF ~Raised(s2) /\ s2.secondaryDemodulator # None
                      THEN SecondarySetSampleRate(s2, outputRate)
                      ELSE s2
              ELSE c
    IN IF ~IsFixedAudioRateChain(c1.demodulator)
       THEN ClientAudioSetClientRate(c1, outputRate)
       ELSE c1

setOutputRate(c, outputRate) ==
    IF Raised(c) \/ outputRate = c.outputRate THEN c
    ELSE LET c1 == [c EXCEPT !.outputRate = outputRate]
         IN IF IsHdAudio(c1.demodulator) THEN c1
            ELSE _updateDemodulatorOutputRate(c1, outputRate)

setHdOutputRate(c, outputRate) ==
    IF Raised(c) \/ outputRate = c.hdOutputRate THEN c
    ELSE LET c1 == [c EXCEPT !.hdOutputRate = outputRate]
         IN IF ~IsHdAudio(c1.demodulator) THEN c1
            ELSE _updateDemodulatorOutputRate(c1, outputRate)

setSampleRate(c, sampleRate) ==
    IF Raised(c) \/ sampleRate = c.sampleRate THEN c
    ELSE [c EXCEPT !.sampleRate = sampleRate,
                   !.selector.inputRate = sampleRate, !.calls = @ + 1]

setMetaWriter(c, writer) ==
    IF Raised(c) \/ writer = c.metaWriter THEN c
    ELSE LET c1 == [c EXCEPT !.metaWriter = writer]
         IN IF IsMetaProvider(c1.demodulator)
            THEN [c1 EXCEPT !.demodulator.metaWriter = writer, !.calls = @ + 1]
            ELSE c1

setSecondaryFftWriter(c, writer) ==
    IF Raised(c) \/ writer = c.secondaryFftWriter THEN c
    ELSE LET c1 == [c EXCEPT !.secondaryFftWriter = writer]
         IN IF c1.secondaryFftChain # None
            THEN [c1 EXCEPT !.secondaryFftChain.writer = writer, !.calls = @ + 1]
            ELSE c1

setSecondaryWriter(c, writer) ==
    IF Raised(c) \/ writer = c.secondaryWriter THEN c
    ELSE LET c1 == [c EXCEPT !.secondaryWriter = writer]
         IN IF c1.secondaryDemodulator # None
            THEN [c1 EXCEPT !.secondaryDemodulator.writer = writer, !.calls = @ + 1]
            ELSE c1

setSecondaryFftSize(c, size) ==
    IF Raised(c) \/ size = c.secondaryFftSize THEN c
    ELSE LET c1 == [c EXCEPT !.secondaryFftSize = size]
         IN IF c1.secondaryFftChain = None THEN c1
            ELSE _createSecondaryFftChain(c1)

setSecondaryFrequencyOffset(c, freq) ==
    IF Raised(c) \/ c.secondaryFrequencyOffset = freq THEN c
    ELSE LET c1 == [c EXCEPT !.secondaryFrequencyOffset = freq]
             c2 == IF c1.secondarySelector # None
                   THEN [c1 EXCEPT !.secondarySelector.frequencyOffset = freq,
                                   !.calls = @ + 1]
                   ELSE c1
         IN _updateDialFrequency(c2)

(***************************************************************************)
(* FftChain.setCompression (csdr/chain/fft.py, outside these sources;      *)
(* spec 4.3): the chain's output format follows the compression, and a     *)
(* changed format is a ValueError since the writer no longer fits.         *)
(***************************************************************************)
FftChainSetCompression(c, compression) ==
    LET c1 == [c EXCEPT !.secondaryFftChain.compression = compression,
                        !.secondaryFftChain.format = FftFormat(compression),
                        !.calls = @ + 1]
    IN IF FftFormat(compression) # c.secondaryFftChain.format
       THEN Raise(c1, "ValueError")
       ELSE c1

\* the chain after the call; the caught ValueError of line 374 leaves none pending
setSecondaryFftCompression(c, compression) ==
    IF Raised(c) \/ compression = c.secondaryFftCompression THEN c
    ELSE LET c1 == [c EXCEPT !.secondaryFftCompression = compression]
         IN IF c1.secondaryFftChain = None THEN c1
            ELSE [FftChainSetCompression(c1, compression) EXCEPT !.exc = "none"]

\* the value the call returns
setSecondaryFftCompressionReturns(c, compression) ==
    IF compression = c.secondaryFftCompression THEN FALSE
    ELSE IF c.secondaryFftChain = None THEN FALSE
    ELSE Raised(FftChainSetCompression(c, compression))

setSecondaryFftOverlapFactor(c, overlap) ==
    IF Raised(c) \/ overlap = c.secondaryFftOverlapFactor THEN c
    ELSE LET c1 == [c EXCEPT !.secondaryFftOverlapFactor = overlap]
         IN IF c1.secondaryFftChain = None THEN c1
            ELSE [c1 EXCEPT !.secondaryFftChain.overlap = overlap, !.calls = @ + 1]

setSecondaryFftFps(c, fps) ==
    IF Raised(c) \/ fps = c.secondaryFftFps THEN c
    ELSE LET c1 == [c EXCEPT !.secondaryFftFps = fps]
         IN IF c1.secondaryFftChain = None THEN c1
            ELSE [c1 EXCEPT !.secondaryFftChain.fps = fps, !.calls = @ + 1]

getSecondaryFftOutputFormat(c) ==
    IF c.secondaryFftChain # None THEN c.secondaryFftChain.format
    ELSE IF c.secondaryFftCompression = "adpcm" THEN CHAR
    ELSE FLOAT

\* lines 405-408 without lines 409-410: tau is kept, the primary not told
setWfmDeemphasisTauKept(c, tau) ==
    IF Raised(c) \/ tau = c.wfmDeemphasisTau THEN c
    ELSE [c EXCEPT !.wfmDeemphasisTau = tau]

setWfmDeemphasisTau(c, tau) ==
    IF Raised(c) \/ tau = c.wfmDeemphasisTau THEN c
    ELSE LET c1 == [c EXCEPT !.wfmDeemphasisTau = tau]
         IN IF IsDeemphasisTauChain(c1.demodulator)
            THEN [c1 EXCEPT !.demodulator.tau = tau, !.calls = @ + 1]
            ELSE c1

setSlotFilterAlways(c, filter) ==
    IF Raised(c) \/ c.demodulator = None THEN c
    ELSE [c EXCEPT !.demodulator.slotFilter = filter, !.calls = @ + 1]

setSlotFilter(c, filter) ==
    IF Raised(c) \/ ~IsSlotFilterChain(c.demodulator) THEN c
    ELSE [c EXCEPT !.demodulator.slotFilter = filter, !.calls = @ + 1]

setAudioServiceId(c, serviceId) ==
    IF Raised(c) \/ ~IsAudioServiceSelector(c.demodulator) THEN c
    ELSE [c EXCEPT !.demodulator.serviceId = serviceId, !.calls = @ + 1]

setRdsRbds(c, rdsRbds) ==
    IF Raised(c) \/ rdsRbds = c.rdsRbds THEN c
    ELSE LET c1 == [c EXCEPT !.rdsRbds = rdsRbds]
         IN IF IsRdsChain(c1.demodulator)
            THEN [c1 EXCEPT !.demodulator.rdsRbds = rdsRbds, !.calls = @ + 1]
            ELSE c1

----------------------------------------------------------------------------
(* Demodulator classes the model draws its objects from *)

\* a plain analog demodulator
Analog ==
    [fixedIf |-> 0, fixedAudio |-> 0, hd |-> FALSE, squelch |-> TRUE,
     dialRx |-> FALSE, fmt |-> FLOAT, deemph |-> FALSE, rds |-> FALSE, meta |-> FALSE,
     slots |-> FALSE, services |-> FALSE]
\* a wideband demodulator with de-emphasis, RDS and metadata
Wide ==
    [fixedIf |-> 0, fixedAudio |-> 0, hd |-> TRUE, squelch |-> TRUE,
     dialRx |-> FALSE, fmt |-> FLOAT, deemph |-> TRUE, rds |-> TRUE, meta |-> TRUE,
     slots |-> FALSE, services |-> FALSE]
\* a digital voice demodulator: fixed IF and audio rates, 16 bit audio
Voice ==
    [fixedIf |-> FixedRateB, fixedAudio |-> FixedRateA, hd |-> FALSE, squelch |-> FALSE,
     dialRx |-> TRUE, fmt |-> SHORT, deemph |-> FALSE, rds |-> FALSE, meta |-> TRUE,
     slots |-> TRUE, services |-> FALSE]
\* a demodulator with a fixed audio rate only
FixedAudio ==
    [fixedIf |-> 0, fixedAudio |-> FixedRateA, hd |-> FALSE, squelch |-> TRUE,
     dialRx |-> FALSE, fmt |-> SHORT, deemph |-> FALSE, rds |-> FALSE, meta |-> FALSE,
     slots |-> FALSE, services |-> FALSE]
\* a broadcast demodulator that carries several audio services
Dab ==
    [fixedIf |-> 0, fixedAudio |-> FixedRateA, hd |-> FALSE, squelch |-> FALSE,
     dialRx |-> FALSE, fmt |-> FLOAT, deemph |-> FALSE, rds |-> FALSE, meta |-> TRUE,
     slots |-> FALSE, services |-> TRUE]

\* an audio decoder with a fixed audio rate that takes the dial frequency
Chopper ==
    [fixedAudio |-> FixedRateB, bandwidth |-> 0, fftShown |-> TRUE, squelch |-> FALSE,
     dialRx |-> TRUE, fmt |-> FLOAT]
\* a narrow-band decoder working on a sub-band of the selector's output
Narrow ==
    [fixedAudio |-> 0, bandwidth |-> 1, fftShown |-> TRUE, squelch |-> TRUE,
     dialRx |-> TRUE, fmt |-> COMPLEX_FLOAT]
\* a background decoder working on the selector's output
Service ==
    [fixedAudio |-> FixedRateA, bandwidth |-> 0, fftShown |-> FALSE, squelch |-> FALSE,
     dialRx |-> FALSE, fmt |-> COMPLEX_FLOAT]

\* every combination of the capabilities the rate derivation reads
RatePrimaryClasses ==
    {[Analog EXCEPT !.fixedIf = fi, !.fixedAudio = fa, !.hd = hd] :
        fi \in {0, FixedRateB}, fa \in {0, FixedRateA, FixedRateB}, hd \in BOOLEAN}
RateSecondaryClasses ==
    {[Service EXCEPT !.fixedAudio = fa] : fa \in {0, FixedRateA, FixedRateB}}

\* DspManager.__init__ line 492: the chain starts on an NFm demodulator at
\* the default output rates (1 stands for output_rate, 2 for hd_output_rate)
InitialChain == __init__(NewPrimary(Analog, 0), 1, 1, 2)

NoChain == [kind |-> "None"]

----------------------------------------------------------------------------
(* The rate derivation as a pure function: SpecRates *)

InitRates ==
    /\ \E p \in {NewPrimary(k, 0) : k \in RatePrimaryClasses} \cup {None},
          s \in {NewSecondary(k, 0) : k \in RateSecondaryClasses} \cup {None},
          r \in Rates, h \in Rates :
          chain = [InitialChain EXCEPT !.demodulator = p, !.secondaryDemodulator = s,
                                       !.outputRate = r, !.hdOutputRate = h]
    /\ ret = [sel |-> [done |-> FALSE, raised |-> FALSE, value |-> 0],
              aud |-> [done |-> FALSE, raised |-> FALSE, value |-> 0]]
    /\ audioOutput = "None" /\ readers = <<>> /\ props = <<>> /\ client = <<>>
    /\ op = [name |-> "init"] /\ mstate = <<>> /\ threads = <<>>

CallGetSelectorOutputRate ==
    /\ ~ret.sel.done
    /\ ret' = [ret EXCEPT !.sel =
                  IF _getSelectorOutputRateRaises(chain)
                  THEN [done |-> TRUE, raised |-> TRUE, value |-> 0]
                  ELSE [done |-> TRUE, raised |-> FALSE,
                        value |-> _getSelectorOutputRate(chain)]]
    /\ UNCHANGED <<chain, audioOutput, readers, props, client, op, mstate, threads>>

CallGetClientAudioInputRate ==
    /\ ~ret.aud.done
    /\ ret' = [ret EXCEPT !.aud = [done |-> TRUE, raised |-> FALSE,
                                   value |-> _getClientAudioInputRate(chain)]]
    /\ UNCHANGED <<chain, audioOutput, readers, props, client, op, mstate, threads>>

NextRates == CallGetSelectorOutputRate \/ CallGetClientAudioInputRate

SpecRates == InitRates /\ [][NextRates]_vars

\* C2: the rates returned follow the rules of spec 4.4: R_sel is the
\* primary's fixed IF rate; else the secondary's fixed audio rate (a ValueError
\* when the primary has a different fixed audio rate); else hd_output_rate
\* for an HdAudio primary and output_rate otherwise.  R_aud is the primary's
\* fixed audio rate; else the secondary's; else as for R_sel.
RateDerivation ==
    LET p == chain.demodulator
        s == chain.secondaryDemodulator
        pIf == IF p = None THEN 0 ELSE p.caps.fixedIf
        pAud == IF p = None THEN 0 ELSE p.caps.fixedAudio
        sAud == IF s = None THEN 0 ELSE s.caps.fixedAudio
        byHd == IF p # None /\ p.caps.hd THEN chain.hdOutputRate ELSE chain.outputRate
    IN /\ ret.sel.done =>
            CASE pIf # 0 -> ~ret.sel.raised /\ ret.sel.value = pIf
              [] pIf = 0 /\ sAud # 0 /\ pAud # 0 /\ pAud # sAud -> ret.sel.raised
              [] pIf = 0 /\ sAud # 0 /\ (pAud = 0 \/ pAud = sAud) ->
                    ~ret.sel.raised /\ ret.sel.value = sAud
              [] OTHER -> ~ret.sel.raised /\ ret.sel.value = byHd
       /\ ret.aud.done =>
            /\ ~ret.aud.raised
            /\ ret.aud.value = (IF pAud # 0 THEN pAud ELSE IF sAud # 0 THEN sAud ELSE byHd)

\* both rates were derived for a primary without fixed rates under a
\* secondary with a fixed audio rate (rule 2 of both derivations)
RateDerivationWitness ==
    /\ ret.sel.done /\ ret.aud.done
    /\ chain.demodulator # None /\ chain.demodulator.caps.fixedIf = 0
    /\ chain.demodulator.caps.fixedAudio = 0 /\ chain.demodulator.caps.hd
    /\ chain.secondaryDemodulator # None
    /\ ret.sel.value = FixedRateA /\ ret.aud.value = FixedRateA

----------------------------------------------------------------------------
(* The chain under any sequence of its setters: SpecChain *)

\* the chain between two operations: what the last one logged is dropped
Quiet(c) == [c EXCEPT !.calls = 0, !.stopped = {}, !.events = <<>>]

\* the objects handed to the chain: one per class, none of whose fixed
\* audio rates can conflict
ChainPrimaries == {NewPrimary(k, 0) : k \in {Analog, Wide, Voice}}
ChainSecondaries == {NewSecondary(k, 0) : k \in {Chopper, Narrow, Service}}

Unused ==
    /\ audioOutput = "None" /\ readers = <<>> /\ props = <<>> /\ client = <<>>
    /\ mstate = <<>> /\ threads = <<>>
    /\ ret = [sel |-> [done |-> FALSE, raised |-> FALSE, value |-> 0],
              aud |-> [done |-> FALSE, raised |-> FALSE, value |-> 0]]

InitChain == chain = InitialChain /\ op = [name |-> "init"] /\ Unused

ChainFrame == UNCHANGED <<audioOutput, readers, props, client, op, ret, mstate, threads>>

ChainSetDemodulator ==
    \E d \in ChainPrimaries :
        chain' = Quiet(setDemodulator(BeginOp(chain), d)) /\ ChainFrame

ChainStopDemodulator ==
    chain' = Quiet(stopDemodulator(BeginOp(chain))) /\ ChainFrame

ChainSetSecondaryDemodulator ==
    \E d \in ChainSecondaries \cup {None} :
        chain' = Quiet(setSecondaryDemodulator(BeginOp(chain), d)) /\ ChainFrame

ChainSetSquelchLevel ==
    \E level \in Levels :
        chain' = Quiet(setSquelchLevel(BeginOp(chain), level)) /\ ChainFrame

ChainSetCenterFrequency ==
    \E f \in Freqs :
        chain' = Quiet(setCenterFrequency(BeginOp(chain), f)) /\ ChainFrame

ChainSetFrequencyOffset ==
    \E f \in Freqs :
        chain' = Quiet(setFrequencyOffset(BeginOp(chain), f)) /\ ChainFrame

ChainSetSecondaryFrequencyOffset ==
    \E f \in Freqs :
        chain' = Quiet(setSecondaryFrequencyOffset(BeginOp(chain), f)) /\ ChainFrame

ChainSetOutputRate ==
    \E r \in Rates :
        chain' = Quiet(setOutputRate(BeginOp(chain), r)) /\ ChainFrame

ChainSetHdOutputRate ==
    \E r \in Rates :
        chain' = Quiet(setHdOutputRate(BeginOp(chain), r)) /\ ChainFrame

NextChain ==
    \/ ChainSetDemodulator
    \/ ChainStopDemodulator
    \/ ChainSetSecondaryDemodulator
    \/ ChainSetSquelchLevel
    \/ ChainSetCenterFrequency
    \/ ChainSetFrequencyOffset
    \/ ChainSetSecondaryFrequencyOffset
    \/ ChainSetOutputRate
    \/ ChainSetHdOutputRate

SpecChain == InitChain /\ [][NextChain]_vars

\* C1: the selector's squelch level is -150 if the current primary or the
\* current secondary demodulator does not support squelch, and the user's
\* squelch_level otherwise.
SquelchGating ==
    chain.selector.squelchLevel =
        IF \/ (chain.demodulator # None /\ ~chain.demodulator.caps.squelch)
           \/ (chain.secondaryDemodulator # None
               /\ ~chain.secondaryDemodulator.caps.squelch)
        THEN SquelchOff
        ELSE chain.squelchLevel

\* C5: with center and offset known, a DialFrequencyReceiver primary last
\* received center + offset, and a DialFrequencyReceiver secondary last
\* received center + offset, plus the secondary offset exactly when a
\* secondary selector is active and a secondary offset is set.
DialFrequencyFormula ==
    (chain.centerFrequency # NoFreq /\ chain.frequencyOffset # NoFreq) =>
        LET dial == chain.centerFrequency + chain.frequencyOffset
        IN /\ IsDialFrequencyReceiver(chain.demodulator) =>
                chain.demodulator.dial = dial
           /\ IsDialFrequencyReceiver(chain.secondaryDemodulator) =>
                chain.secondaryDemodulator.dial =
                    IF chain.secondarySelector # None
                       /\ chain.secondaryFrequencyOffset # NoFreq
                    THEN dial + chain.secondaryFrequencyOffset
                    ELSE dial

----------------------------------------------------------------------------
(* DspManager.  A manager is the record m of its fields; every method is    *)
(* an operator on m.  m.exc is the exception pending in the running         *)
(* handler, m.client what the handler wrote to the client so far.           *)

Channels == {"audio", "hd_audio", "smeter", "secondary_fft", "secondary_demod", "meta"}

\* mode tokens _getDemodulator resolves, with the class of the demodulator
\* each one constructs (lines 587-634; the classes are outside these sources)
PrimaryMods == {"nfm", "usb", "wfm", "dmr", "freedv"}
PrimaryClassOf(mod) ==
    CASE mod = "nfm" -> Analog
      [] mod = "usb" -> Analog
      [] mod = "wfm" -> Wide
      [] mod = "dmr" -> Voice
      [] mod = "freedv" -> FixedAudio

\* mode tokens _getSecondaryDemodulator resolves (lines 667-806)
SecondaryMods == {"ft8", "bpsk31", "streamer"}
SecondaryClassOf(mod) ==
    CASE mod = "ft8" -> Chopper
      [] mod = "bpsk31" -> Narrow
      [] mod = "streamer" -> Service

\* Modes.mappings: the underlying modes of the digital modes above
Underlying(mod) ==
    CASE mod = "ft8" -> {"usb"}
      [] mod = "bpsk31" -> {"usb"}
      [] mod = "streamer" -> {"empty"}
      [] OTHER -> {}

\* a token that passes ModulationValidator and names no mode
UnknownMod == "xyz"

MRaised(m) == m.exc # "none"

\* a call self.chain.f(...): AttributeError when self.chain is None; an
\* exception raised inside the chain propagates into the handler
ChainCall(m, c2) ==
    IF MRaised(m) THEN m
    ELSE IF m.chain = NoChain THEN [m EXCEPT !.exc = "AttributeError"]
    ELSE [m EXCEPT !.chain = [c2 EXCEPT !.exc = "none"], !.exc = c2.exc]

unwireOutput(m, t) ==
    IF MRaised(m) \/ m.readers[t] = 0 THEN m
    ELSE [m EXCEPT !.mstate.live = @ \ {[t |-> t, n |-> m.readers[t]]},
                   !.readers[t] = 0]

\* lines 867-868 without line 865: the reader registered for t is replaced
\* unstopped
wireOutput_registerOver(m, t) ==
    LET n == CHOOSE k \in 1..(Cardinality(m.mstate.live) + 1) :
                    [t |-> t, n |-> k] \notin m.mstate.live
    IN IF MRaised(m) THEN m
       ELSE [m EXCEPT !.readers[t] = n,
                      !.mstate.live = @ \cup {[t |-> t, n |-> n]},
                      !.mstate.wired = @ \cup {t}]

\* lines 865-868: stop the reader registered for t, register a new one
wireOutput_register(m, t) ==
    LET m1 == unwireOutput(m, t)
        n == CHOOSE k \in 1..(Cardinality(m1.mstate.live) + 1) :
                    [t |-> t, n |-> k] \notin m1.mstate.live
    IN IF MRaised(m1) THEN m1
       ELSE [m1 EXCEPT !.readers[t] = n,
                       !.mstate.live = @ \cup {[t |-> t, n |-> n]},
                       !.mstate.wired = @ \cup {t}]

\* line 869: self.chain.pump(...) on a pump thread of its own
wireOutput_pump(m) ==
    IF MRaised(m) THEN m
    ELSE IF m.chain = NoChain THEN [m EXCEPT !.exc = "AttributeError"]
    ELSE m

wireOutput(m, t) == wireOutput_pump(wireOutput_register(m, t))

_getDemodulator(mod) ==
    IF mod \in PrimaryMods THEN NewPrimary(PrimaryClassOf(mod), 0) ELSE None

\* a fresh object: its identity differs from the secondary in place
_getSecondaryDemodulator(m, mod) ==
    IF mod \in SecondaryMods
    THEN NewSecondary(SecondaryClassOf(mod),
                      IF m.chain # NoChain /\ m.chain.secondaryDemodulator # None
                      THEN 1 - m.chain.secondaryDemodulator.id ELSE 0)
    ELSE None

\* the notifications of the chain (lines 939-943) reach the client as
\* secondary_dsp_config messages
Notify(m) ==
    IF m.chain = NoChain THEN m
    ELSE [m EXCEPT !.client.config = @ \o m.chain.events, !.chain.events = <<>>]

DspManager_setSecondaryDemodulator(m, mod) ==
    IF MRaised(m) THEN m
    ELSE Notify(ChainCall(m, setSecondaryDemodulator(m.chain, _getSecondaryDemodulator(m, mod))))

\* line 646
OutputOf(demodulator) == IF IsHdAudio(demodulator) THEN "hd_audio" ELSE "audio"

\* lines 649-652: the new channel and a buffer of the chain's output format
DspManager_setDemodulator_buffer(m, output) ==
    IF MRaised(m) THEN m
    ELSE IF m.chain = NoChain THEN [m EXCEPT !.audioOutput = output, !.exc = "AttributeError"]
    ELSE [m EXCEPT !.audioOutput = output]

\* lines 646-653
DspManager_setDemodulator_output(m, demodulator) ==
    IF MRaised(m) \/ OutputOf(demodulator) = m.audioOutput THEN m
    ELSE wireOutput(DspManager_setDemodulator_buffer(m, OutputOf(demodulator)),
                    OutputOf(demodulator))

\* lines 655-659
DspManager_setDemodulator_secondary(m, mod) ==
    LET mod2 == m.props.secondary_mod
    IN IF ~MRaised(m) /\ mod \in Underlying(mod2)
       THEN DspManager_setSecondaryDemodulator(m, mod2)
       ELSE m

\* lines 661-662: only a DemodulatorError is caught and reported
DspManager_setDemodulator_except(m) ==
    IF m.exc = "DemodulatorError"
    THEN [m EXCEPT !.exc = "none", !.client.errors = @ + 1]
    ELSE m

(***************************************************************************)
(* DspManager.setDemodulator(mod).  fails: the constructor of the          *)
(* demodulator raises DemodulatorError (the constructors are outside these *)
(* sources; spec 7, ExternalProcessFailure).                               *)
(***************************************************************************)
DspManager_setDemodulator(m, mod, fails) ==
    LET m1 == ChainCall(m, stopDemodulator(m.chain))
        demodulator == _getDemodulator(mod)
        m2 == IF MRaised(m1) THEN m1
              ELSE IF demodulator = None THEN [m1 EXCEPT !.exc = "ValueError"]
              ELSE IF fails THEN [m1 EXCEPT !.exc = "DemodulatorError"]
              ELSE m1
        m3 == IF MRaised(m2) THEN m2
              ELSE ChainCall(m2, setDemodulator(m2.chain, demodulator))
        m4 == DspManager_setDemodulator_output(m3, demodulator)
        m5 == DspManager_setDemodulator_secondary(m4, mod)
    IN IF m1.exc = "AttributeError" THEN m1
       ELSE DspManager_setDemodulator_except(m5)

\* DspManager.__init__ without start_mod and start_freq: lines 492-576
InitialManager ==
    LET c1 == setFrequencyOffset(InitialChain, 0)
        c2 == setMetaWriter(c1, 1)
        c3 == setSecondaryFftWriter(c2, 2)
        c4 == setSecondaryWriter(c3, 3)
        wired == {"smeter", "meta", "secondary_fft", "secondary_demod"}
    IN [chain |-> Quiet(c4),
        audioOutput |-> "None",
        readers |-> [t \in Channels |-> IF t \in wired THEN 1 ELSE 0],
        props |-> [mod |-> "", secondary_mod |-> ""],
        client |-> [errors |-> 0, config |-> <<>>],
        mstate |-> [live |-> {[t |-> t, n |-> 1] : t \in wired}, wired |-> {},
                    subscribed |-> TRUE],
        exc |-> "none"]

----------------------------------------------------------------------------
(* The manager under the property changes of its client: Spec *)

\* the manager as the current state holds it, at the start of a handler
Manager ==
    [chain |-> IF chain = NoChain THEN chain ELSE BeginOp(chain),
     audioOutput |-> audioOutput, readers |-> readers, props |-> props,
     client |-> [errors |-> 0, config |-> <<>>],
     mstate |-> [mstate EXCEPT !.wired = {}],
     exc |-> "none"]

\* the manager in the middle of a handler: what it wrote so far is kept
Current ==
    [chain |-> IF chain = NoChain THEN chain ELSE [chain EXCEPT !.exc = "none"],
     audioOutput |-> audioOutput, readers |-> readers, props |-> props,
     client |-> client, mstate |-> mstate, exc |-> "none"]

Installed(m) ==
    /\ chain' = m.chain
    /\ audioOutput' = m.audioOutput
    /\ readers' = m.readers
    /\ props' = m.props
    /\ client' = m.client
    /\ mstate' = m.mstate

\* the state a handler leaves behind; the exception that escaped it is in op
Handled(m, name, arg) ==
    Installed(m) /\ op' = [name |-> name, arg |-> arg, exc |-> m.exc]

\* the control threads: the property handler in progress and stop()
IdleThreads ==
    [handler |-> [pc |-> "idle", mod |-> "", fails |-> FALSE], stop |-> "idle"]

Init ==
    /\ chain = InitialManager.chain
    /\ audioOutput = InitialManager.audioOutput
    /\ readers = InitialManager.readers
    /\ props = InitialManager.props
    /\ client = InitialManager.client
    /\ mstate = InitialManager.mstate
    /\ op = [name |-> "__init__", arg |-> "", exc |-> "none"]
    /\ threads = IdleThreads
    /\ ret = [sel |-> [done |-> FALSE, raised |-> FALSE, value |-> 0],
              aud |-> [done |-> FALSE, raised |-> FALSE, value |-> 0]]

\* props["mod"] = mod
SetMod ==
    \E mod \in PrimaryMods \cup {UnknownMod}, fails \in BOOLEAN :
        /\ fails => mod \in PrimaryMods
        /\ Handled(DspManager_setDemodulator(
                      [Manager EXCEPT !.props.mod = mod], mod, fails), "mod", mod)
        /\ UNCHANGED <<ret, threads>>

\* props["secondary_mod"] = mod
SetSecondaryMod ==
    \E mod \in SecondaryMods \cup {UnknownMod} :
        /\ Handled(DspManager_setSecondaryDemodulator(
                      [Manager EXCEPT !.props.secondary_mod = mod], mod),
                   "secondary_mod", mod)
        /\ UNCHANGED <<ret, threads>>

\* props["squelch_level"] = level, wired to chain.setSquelchLevel
SetSquelchLevel ==
    \E level \in Levels :
        /\ Handled(ChainCall(Manager, setSquelchLevel(Manager.chain, level)),
                   "squelch_level", level)
        /\ UNCHANGED <<ret, threads>>

\* props["output_rate"] = r, wired to chain.setOutputRate
SetOutputRate ==
    \E r \in Rates :
        /\ Handled(ChainCall(Manager, setOutputRate(Manager.chain, r)), "output_rate", r)
        /\ UNCHANGED <<ret, threads>>

Next ==
    \/ SetMod
    \/ SetSecondaryMod
    \/ SetSquelchLevel
    \/ SetOutputRate

Spec == Init /\ [][Next]_vars

\* the reader registered for channel t has not been stopped
Live(t) == readers[t] # 0 /\ [t |-> t, n |-> readers[t]] \in mstate.live

\* rule 2 of the rate negotiation finds two different fixed audio rates
RateConflict(primary, secondaryClass) ==
    /\ primary # None
    /\ ~IsFixedIfSampleRateChain(primary)
    /\ IsFixedAudioRateChain(primary)
    /\ secondaryClass.fixedAudio # 0
    /\ primary.caps.fixedAudio # secondaryClass.fixedAudio

(***************************************************************************)
(* C3: when the primary has a fixed audio rate and secondary_mod selects a *)
(* secondary whose fixed audio rate differs, the handler writes one        *)
(* demodulator_error and leaves the previous configuration in place: the   *)
(* previous secondary stays adopted and is not stopped, the selector (its  *)
(* rate and squelch) and the secondary selector are unchanged.             *)
(***************************************************************************)
IncompatibleSecondaryAborts ==
    [][ ( /\ op'.name = "secondary_mod"
          /\ op'.arg \in SecondaryMods
          /\ RateConflict(chain.demodulator, SecondaryClassOf(op'.arg)) )
        => /\ client'.errors = 1
           /\ chain'.secondaryDemodulator = chain.secondaryDemodulator
           /\ chain'.stopped = {}
           /\ chain'.selector = chain.selector
           /\ chain'.secondarySelector = chain.secondarySelector ]_vars

(***************************************************************************)
(* C4: when mod is set to a token _getDemodulator does not resolve, the    *)
(* handler writes exactly one demodulator_error, lets no exception escape, *)
(* and the previous primary and secondary stay in place, not stopped.      *)
(***************************************************************************)
UnknownModeKeepsSession ==
    [][ ( op'.name = "mod" /\ op'.arg \notin PrimaryMods )
        => /\ client'.errors = 1
           /\ op'.exc = "none"
           /\ chain'.demodulator = chain.demodulator
           /\ chain'.secondaryDemodulator = chain.secondaryDemodulator
           /\ chain'.stopped = {} ]_vars

(***************************************************************************)
(* C9: after any sequence of mode changes at most one of the channels      *)
(* audio and hd_audio has a live reader in DspManager.readers.             *)
(***************************************************************************)
AudioChannelsExclusive == ~(Live("audio") /\ Live("hd_audio"))

----------------------------------------------------------------------------
(* DspManager.setDemodulator statement by statement, down to the steps of  *)
(* the chain's stopDemodulator and setDemodulator: SpecSteps               *)

Goto(pc) == threads' = [threads EXCEPT !.handler.pc = pc]

\* the handler returns, or is left by the exception pending in m
Finish(m) ==
    /\ Installed(DspManager_setDemodulator_except(m))
    /\ op' = [op EXCEPT !.exc = DspManager_setDemodulator_except(m).exc]
    /\ threads' = [threads EXCEPT !.handler = IdleThreads.handler]

Continue(m, pc) ==
    IF MRaised(m) THEN Finish(m)
    ELSE Installed(m) /\ Goto(pc) /\ UNCHANGED op

\* the demodulator the handler in progress constructs
Constructed == _getDemodulator(threads.handler.mod)

\* props["mod"] = mod arrives; line 638 up to line 141 (or the return of line 135)
StepStopDemodulatorDummy ==
    \E mod \in PrimaryMods \cup {UnknownMod}, fails \in BOOLEAN :
        LET m0 == [Manager EXCEPT !.props.mod = mod]
            none == m0.chain.demodulator = None
            m1 == IF none THEN m0 ELSE ChainCall(m0, stopDemodulator_dummy(m0.chain))
        IN /\ threads.handler.pc = "idle"
           /\ fails => mod \in PrimaryMods
           /\ Installed(m1)
           /\ op' = [name |-> "mod", arg |-> mod, exc |-> "none"]
           /\ threads' = [threads EXCEPT !.handler =
                            [pc |-> IF none THEN "format" ELSE "clear",
                             mod |-> mod, fails |-> fails]]
           /\ UNCHANGED ret

\* lines 143-146
StepStopDemodulatorClear ==
    /\ threads.handler.pc = "clear"
    /\ Continue(ChainCall(Current, stopDemodulator_clear(Current.chain)), "format")
    /\ UNCHANGED ret

\* lines 641-643, then lines 95-103 of the chain's setDemodulator
StepSetDemodulatorFormat ==
    /\ threads.handler.pc = "format"
    /\ Continue(IF Constructed = None THEN [Current EXCEPT !.exc = "ValueError"]
                ELSE IF threads.handler.fails
                THEN [Current EXCEPT !.exc = "DemodulatorError"]
                ELSE ChainCall(Current, setDemodulator_format(Current.chain, Constructed)),
                "adopt")
    /\ UNCHANGED ret

\* lines 105-125
StepSetDemodulatorAdopt ==
    /\ threads.handler.pc = "adopt"
    /\ Continue(ChainCall(Current, setDemodulator_adopt(Current.chain, Constructed)),
                "replace")
    /\ UNCHANGED ret

\* lines 127-131, then lines 646-662 of the manager
StepSetDemodulatorReplace ==
    /\ threads.handler.pc = "replace"
    /\ Finish(DspManager_setDemodulator_secondary(
                 DspManager_setDemodulator_output(
                    ChainCall(Current, setDemodulator_replace(Current.chain)),
                    Constructed),
                 threads.handler.mod))
    /\ UNCHANGED ret

StepSetSecondaryMod == threads.handler.pc = "idle" /\ SetSecondaryMod

NextSteps ==
    \/ StepStopDemodulatorDummy
    \/ StepStopDemodulatorClear
    \/ StepSetDemodulatorFormat
    \/ StepSetDemodulatorAdopt
    \/ StepSetDemodulatorReplace
    \/ StepSetSecondaryMod

SpecSteps == Init /\ [][NextSteps]_vars

\* stage 1 feeds the ClientAudioChain in its input format, through a buffer
\* of that format
Closed(c) ==
    /\ c.workers1.format = c.clientAudioChain.format
    /\ c.audioBuffer.format = c.workers1.format

(***************************************************************************)
(* C6: in every state, the intermediate states inside setDemodulator and   *)
(* stopDemodulator included, stage 1 (the primary or the dummy) puts out   *)
(* the format the ClientAudioChain takes in, and the audio buffer has the  *)
(* output format of stage 1.  (The selector and the input of stage 1 are   *)
(* COMPLEX_FLOAT throughout.)                                              *)
(***************************************************************************)
FormatClosure == Closed(chain)

----------------------------------------------------------------------------
(* A property handler and stop() on two threads: SpecThreads.  Each step   *)
(* is one statement of DspManager.setDemodulator, of wireOutput or of      *)
(* stop(); nothing in DspManager orders the steps of the two threads.      *)

\* props["mod"] = mod arrives while the subscription stands; line 638
HandlerStopDemodulator ==
    \E mod \in PrimaryMods \cup {UnknownMod}, fails \in BOOLEAN :
        LET m0 == [Manager EXCEPT !.props.mod = mod]
            m1 == ChainCall(m0, stopDemodulator(m0.chain))
        IN /\ threads.handler.pc = "idle"
           /\ mstate.subscribed
           /\ fails => mod \in PrimaryMods
           /\ Installed(m1)
           /\ op' = [name |-> "mod", arg |-> mod, exc |-> m1.exc]
           /\ threads' = [threads EXCEPT !.handler =
                            IF MRaised(m1) THEN IdleThreads.handler
                            ELSE [pc |-> "set", mod |-> mod, fails |-> fails]]
           /\ UNCHANGED ret

\* lines 641-648
HandlerSetDemodulator ==
    /\ threads.handler.pc = "set"
    /\ Continue(IF Constructed = None THEN [Current EXCEPT !.exc = "ValueError"]
                ELSE IF threads.handler.fails
                THEN [Current EXCEPT !.exc = "DemodulatorError"]
                ELSE ChainCall(Current, setDemodulator(Current.chain, Constructed)),
                IF Constructed # None /\ OutputOf(Constructed) # audioOutput
                THEN "buffer" ELSE "secondary")
    /\ UNCHANGED ret

\* lines 649-652
HandlerSetWriter ==
    /\ threads.handler.pc = "buffer"
    /\ Continue(DspManager_setDemodulator_buffer(Current, OutputOf(Constructed)), "wire")
    /\ UNCHANGED ret

\* lines 865-868
HandlerWireOutput ==
    /\ threads.handler.pc = "wire"
    /\ Continue(wireOutput_register(Current, audioOutput), "pump")
    /\ UNCHANGED ret

\* line 869
HandlerPump ==
    /\ threads.handler.pc = "pump"
    /\ Continue(wireOutput_pump(Current), "secondary")
    /\ UNCHANGED ret

\* lines 655-662
HandlerSecondary ==
    /\ threads.handler.pc = "secondary"
    /\ Finish(DspManager_setDemodulator_secondary(Current, threads.handler.mod))
    /\ UNCHANGED ret

\* lines 894-895
StopChain ==
    /\ threads.stop = "idle"
    /\ chain' = IF chain = NoChain THEN chain ELSE stop(chain)
    /\ threads' = [threads EXCEPT !.stop = IF chain = NoChain THEN "readers" ELSE "chain"]
    /\ UNCHANGED <<audioOutput, readers, props, client, op, ret, mstate>>

\* line 896
StopChainNone ==
    /\ threads.stop = "chain"
    /\ chain' = NoChain
    /\ threads' = [threads EXCEPT !.stop = "readers"]
    /\ UNCHANGED <<audioOutput, readers, props, client, op, ret, mstate>>

\* lines 897-898
StopReaders ==
    /\ threads.stop = "readers"
    /\ mstate' = [mstate EXCEPT !.live =
                    @ \ {[t |-> t, n |-> readers[t]] : t \in Channels}]
    /\ threads' = [threads EXCEPT !.stop = "clear"]
    /\ UNCHANGED <<chain, audioOutput, readers, props, client, op, ret>>

\* lines 899-906: stop() returns
StopClear ==
    /\ threads.stop = "clear"
    /\ readers' = [t \in Channels |-> 0]
    /\ mstate' = [mstate EXCEPT !.subscribed = FALSE]
    /\ threads' = [threads EXCEPT !.stop = "done"]
    /\ UNCHANGED <<chain, audioOutput, props, client, op, ret>>

NextThreads ==
    \/ HandlerStopDemodulator
    \/ HandlerSetDemodulator
    \/ HandlerSetWriter
    \/ HandlerWireOutput
    \/ HandlerPump
    \/ HandlerSecondary
    \/ StopChain
    \/ StopChainNone
    \/ StopReaders
    \/ StopClear

SpecThreads == Init /\ [][NextThreads]_vars

(***************************************************************************)
(* C7: a property handler and stop() never interleave: while stop() is     *)
(* between its first and its last statement no handler is between its own, *)
(* and no handler statement finds the chain set to None by stop().         *)
(***************************************************************************)
SingleOrchestratorLock ==
    /\ ~(threads.handler.pc # "idle" /\ threads.stop \in {"chain", "readers", "clear"})
    /\ op.exc # "AttributeError"

(***************************************************************************)
(* C8: once stop() has returned and the handler that ran beside it has     *)
(* ended, every reader wireOutput opened is stopped, the readers map is    *)
(* empty and the manager holds no chain.                                   *)
(***************************************************************************)
StopComplete ==
    (threads.stop = "done" /\ threads.handler.pc = "idle")
    => /\ mstate.live = {}
       /\ \A t \in Channels : readers[t] = 0
       /\ chain = NoChain

----------------------------------------------------------------------------
(* The setters of the chain, called in a row: SpecSetters *)

\* the objects handed to the setters, other than the ones in place
SetterPrimaries == {NewPrimary(k, 1) : k \in {Analog, Wide, Voice}}
SetterSecondaries == {NewSecondary(k, 1) : k \in {Chopper, Narrow, Service}}
\* writers: None and one buffer
Writers == {0, 1}

\* the chains the calls start from: every primary with every secondary
SetterChains ==
    {Quiet(setSecondaryDemodulator(setDemodulator(InitialChain, p), s)) :
        p \in ChainPrimaries, s \in ChainSecondaries \cup {None}}

InitSetters ==
    /\ chain \in SetterChains
    /\ op = [name |-> "init", n |-> 0, repeat |-> FALSE]
    /\ Unused

\* what a call leaves behind; repeat: it is the call before it, once more
Called(c, name, a) ==
    /\ chain' = c
    /\ op' = [name |-> name, arg |-> a, n |-> op.n + 1,
              repeat |-> op.name = name /\ op.arg = a]
    /\ UNCHANGED <<audioOutput, readers, props, client, ret, mstate, threads>>

CallSetDemodulator ==
    \E a \in SetterPrimaries :
        /\ op.n < MaxCalls
        /\ Called(setDemodulator(BeginOp(chain), a), "setDemodulator", a)

CallSetSecondaryDemodulator ==
    \E a \in SetterSecondaries \cup {None} :
        /\ op.n < MaxCalls
        /\ Called(setSecondaryDemodulator(BeginOp(chain), a), "setSecondaryDemodulator", a)

CallSetFrequencyOffset ==
    \E a \in Freqs :
        /\ op.n < MaxCalls
        /\ Called(setFrequencyOffset(BeginOp(chain), a), "setFrequencyOffset", a)

CallSetCenterFrequency ==
    \E a \in Freqs :
        /\ op.n < MaxCalls
        /\ Called(setCenterFrequency(BeginOp(chain), a), "setCenterFrequency", a)

CallSetSquelchLevel ==
    \E a \in Levels :
        /\ op.n < MaxCalls
        /\ Called(setSquelchLevel(BeginOp(chain), a), "setSquelchLevel", a)

CallSetOutputRate ==
    \E a \in Rates :
        /\ op.n < MaxCalls
        /\ Called(setOutputRate(BeginOp(chain), a), "setOutputRate", a)

CallSetHdOutputRate ==
    \E a \in Rates :
        /\ op.n < MaxCalls
        /\ Called(setHdOutputRate(BeginOp(chain), a), "setHdOutputRate", a)

CallSetSampleRate ==
    \E a \in Rates :
        /\ op.n < MaxCalls
        /\ Called(setSampleRate(BeginOp(chain), a), "setSampleRate", a)

CallSetSecondaryFftSize ==
    \E a \in {2048, 4096} :
        /\ op.n < MaxCalls
        /\ Called(setSecondaryFftSize(BeginOp(chain), a), "setSecondaryFftSize", a)

CallSetSecondaryFrequencyOffset ==
    \E a \in Freqs :
        /\ op.n < MaxCalls
        /\ Called(setSecondaryFrequencyOffset(BeginOp(chain), a), "setSecondaryFrequencyOffset", a)

CallSetSecondaryFftCompression ==
    \E a \in {"adpcm", "none"} :
        /\ op.n < MaxCalls
        /\ Called(setSecondaryFftCompression(BeginOp(chain), a), "setSecondaryFftCompression", a)

CallSetSecondaryFftOverlapFactor ==
    \E a \in {30, 60} :
        /\ op.n < MaxCalls
        /\ Called(setSecondaryFftOverlapFactor(BeginOp(chain), a), "setSecondaryFftOverlapFactor", a)

CallSetSecondaryFftFps ==
    \E a \in {9, 25} :
        /\ op.n < MaxCalls
        /\ Called(setSecondaryFftFps(BeginOp(chain), a), "setSecondaryFftFps", a)

CallSetWfmDeemphasisTau ==
    \E a \in {50, 75} :
        /\ op.n < MaxCalls
        /\ Called(setWfmDeemphasisTau(BeginOp(chain), a), "setWfmDeemphasisTau", a)

CallSetRdsRbds ==
    \E a \in BOOLEAN :
        /\ op.n < MaxCalls
        /\ Called(setRdsRbds(BeginOp(chain), a), "setRdsRbds", a)

CallSetMetaWriter ==
    \E a \in Writers :
        /\ op.n < MaxCalls
        /\ Called(setMetaWriter(BeginOp(chain), a), "setMetaWriter", a)

CallSetSecondaryFftWriter ==
    \E a \in Writers :
        /\ op.n < MaxCalls
        /\ Called(setSecondaryFftWriter(BeginOp(chain), a), "setSecondaryFftWriter", a)

CallSetSecondaryWriter ==
    \E a \in Writers :
        /\ op.n < MaxCalls
        /\ Called(setSecondaryWriter(BeginOp(chain), a), "setSecondaryWriter", a)

NextSetters ==
    \/ CallSetDemodulator
    \/ CallSetSecondaryDemodulator
    \/ CallSetFrequencyOffset
    \/ CallSetCenterFrequency
    \/ CallSetSquelchLevel
    \/ CallSetOutputRate
    \/ CallSetHdOutputRate
    \/ CallSetSampleRate
    \/ CallSetSecondaryFftSize
    \/ CallSetSecondaryFrequencyOffset
    \/ CallSetSecondaryFftCompression
    \/ CallSetSecondaryFftOverlapFactor
    \/ CallSetSecondaryFftFps
    \/ CallSetWfmDeemphasisTau
    \/ CallSetRdsRbds
    \/ CallSetMetaWriter
    \/ CallSetSecondaryFftWriter
    \/ CallSetSecondaryWriter

SpecSetters == InitSetters /\ [][NextSetters]_vars

\* the fields of the chain and of its stages, without the log of the operation
Fields(c) == [Quiet(c) EXCEPT !.exc = "none"]

(***************************************************************************)
(* C10: a call of one of the 18 setters that repeats the call before it,   *)
(* with the same argument, changes no field of the chain or of its stages, *)
(* rebuilds and stops nothing, notifies nobody and issues no call to any   *)
(* stage.                                                                  *)
(***************************************************************************)
SetterIdempotence ==
    [][ op'.repeat
        => /\ Fields(chain') = Fields(chain)
           /\ chain'.calls = 0
           /\ chain'.stopped = {}
           /\ chain'.events = <<>>
           /\ chain'.exc = "none" ]_vars

\* setFrequencyOffset was called twice with an offset that the first call set
SetterIdempotenceWitness ==
    /\ op.repeat
    /\ op.name = "setFrequencyOffset"
    /\ op.arg = 1
    /\ chain.frequencyOffset = 1
    /\ chain.selector.frequencyOffset = 1

----------------------------------------------------------------------------
(* The property handlers that rebuild or re-wire: SpecHandlers *)

\* Buffer(...): a buffer other than the one the FFT writer is now
NewFftBuffer(c) == IF c.secondaryFftWriter = 2 THEN 4 ELSE 2

\* DspManager.setSecondaryFftCompression, lines 824-833
DspManager_setSecondaryFftCompression(m, compression) ==
    LET m1 == ChainCall(m, setSecondaryFftCompression(m.chain, compression))
        m2 == IF MRaised(m1) THEN m1
              ELSE ChainCall(m1, setSecondaryFftWriter(m1.chain, NewFftBuffer(m1.chain)))
    IN wireOutput(m2, "secondary_fft")

\* DspManager.setSecondaryFftSize, lines 579-581
DspManager_setSecondaryFftSize(m, size) ==
    LET m1 == ChainCall(m, setSecondaryFftSize(m.chain, size))
    IN IF MRaised(m1) THEN m1
       ELSE [m1 EXCEPT !.client.config = Append(@, [secondary_fft_size |-> size])]

\* props["fft_compression"] = compression
SetFftCompression ==
    \E compression \in {"adpcm", "none"} :
        /\ threads.handler.pc = "idle"
        /\ Handled(DspManager_setSecondaryFftCompression(Manager, compression),
                   "fft_compression", compression)
        /\ UNCHANGED <<ret, threads>>

\* props["digimodes_fft_size"] = size
SetFftSize ==
    \E size \in {2048, 4096} :
        /\ threads.handler.pc = "idle"
        /\ Handled(DspManager_setSecondaryFftSize(Manager, size),
                   "digimodes_fft_size", size)
        /\ UNCHANGED <<ret, threads>>

NextHandlers ==
    \/ SetMod
    \/ SetSecondaryMod
    \/ SetFftCompression
    \/ SetFftSize

SpecHandlers == Init /\ [][NextHandlers]_vars

(***************************************************************************)
(* C11: a handler for mod, secondary_mod, fft_compression or               *)
(* digimodes_fft_size that is called with the value of the call before it  *)
(* stops and recreates no demodulator, re-wires no output channel and      *)
(* writes no client message.  (audio_compression is delegated to           *)
(* ClientAudioChain.setAudioCompression, outside these sources.)           *)
(***************************************************************************)
HandlerIdempotence ==
    [][ ( /\ op'.name = op.name
          /\ op'.arg = op.arg
          /\ op.exc = "none" )
        => /\ chain'.stopped = {}
           /\ Fields(chain') = Fields(chain)
           /\ mstate'.wired = {}
           /\ client'.errors = 0
           /\ client'.config = <<>> ]_vars

----------------------------------------------------------------------------
(* A mode change away from a mode and back to it: SpecRoundTrip.  ret      *)
(* holds the topology of the pipeline as it was before the change away.    *)

\* the topology of the pipeline: kinds of stages, declared formats, rates,
\* the secondary taps present, the output channels wired
Topology ==
    [primary |-> IF chain.demodulator = None THEN None ELSE chain.demodulator.caps,
     dummy |-> chain.workers1.dummy,
     formats |-> <<chain.workers1.format, chain.audioBuffer.format,
                   chain.clientAudioChain.format>>,
     rates |-> <<chain.selector.outputRate, chain.clientAudioChain.inputRate,
                 chain.clientAudioChain.clientRate>>,
     secondary |-> chain.secondaryDemodulator # None,
     secondarySelector |-> chain.secondarySelector # None,
     secondaryFftChain |-> chain.secondaryFftChain # None,
     wired |-> {t \in Channels : readers[t] # 0}]

InitRoundTrip ==
    /\ chain = InitialManager.chain
    /\ audioOutput = InitialManager.audioOutput
    /\ readers = InitialManager.readers
    /\ props = InitialManager.props
    /\ client = InitialManager.client
    /\ mstate = InitialManager.mstate
    /\ op = [name |-> "__init__", arg |-> "", exc |-> "none"]
    /\ threads = IdleThreads
    /\ ret = [stage |-> "free", mode |-> "", topology |-> <<>>]

\* where a mode change stands in the round trip: "free" before it, "away"
\* from a mode A that was set without an error to another, "back" to A
TripStep(stage, mod) ==
    CASE stage = "free" -> ret.stage = "free"
      [] stage = "away" -> /\ ret.stage = "free"
                           /\ props.mod \in PrimaryMods
                           /\ op.exc = "none"
                           /\ mod # props.mod
      [] stage = "back" -> ret.stage = "away" /\ mod = ret.mode

\* props["mod"] = mod
TripSetMod ==
    \E mod \in PrimaryMods, stage \in {"free", "away", "back"} :
        /\ TripStep(stage, mod)
        /\ Handled(DspManager_setDemodulator(
                      [Manager EXCEPT !.props.mod = mod], mod, FALSE), "mod", mod)
        /\ ret' = IF stage = "away"
                  THEN [stage |-> stage, mode |-> props.mod, topology |-> Topology]
                  ELSE [ret EXCEPT !.stage = stage]
        /\ UNCHANGED threads

\* props["secondary_mod"] = mod, before the round trip
TripSetSecondaryMod == ret.stage = "free" /\ SetSecondaryMod

NextRoundTrip ==
    \/ TripSetMod
    \/ TripSetSecondaryMod

SpecRoundTrip == InitRoundTrip /\ [][NextRoundTrip]_vars

(***************************************************************************)
(* C12: after mod went from A to B and back to A, without an error, the    *)
(* pipeline has the topology it had in A before: the same kind of primary  *)
(* at stage 1, the same formats, the same selector and client audio rates, *)
(* the same presence of secondary demodulator, secondary selector and      *)
(* secondary FFT chain, the same output channels wired.                    *)
(***************************************************************************)
RoundTripTopology ==
    (ret.stage = "back" /\ op.exc = "none") => Topology = ret.topology

----------------------------------------------------------------------------
(* The taps of the secondary demodulator, under SpecSetters *)

\* setSecondaryDemodulator(new) ran to its end: new is not the secondary in
\* place (line 167) and nothing was raised
SecondarySet ==
    /\ op'.name = "setSecondaryDemodulator"
    /\ ~Is(op'.arg, chain.secondaryDemodulator)
    /\ chain'.exc = "none"

\* new.isSecondaryFftShown(), lines 207 and 211
RequestsSecondaryFft(d) == d # None /\ d.caps.fftShown

\* a primary that carries SecondaryFftShown: the source has no such query on
\* a primary; the wideband class stands for a primary that carries the tag
PrimaryRequestsSecondaryFft(d) == d # None /\ d.caps = Wide

\* the FFT chain is the one _createSecondaryFftChain builds now
BuiltFromSettings(c) ==
    /\ c.secondaryFftChain.size = c.secondaryFftSize
    /\ c.secondaryFftChain.overlap = c.secondaryFftOverlapFactor
    /\ c.secondaryFftChain.fps = c.secondaryFftFps
    /\ c.secondaryFftChain.compression = c.secondaryFftCompression
    /\ c.secondaryFftChain.reader = "selectorBuffer"
    /\ c.secondaryFftChain.writer = c.secondaryFftWriter

SecondaryInput(c) ==
    IF c.secondarySelector # None THEN [src |-> "secsel"]
    ELSE IF c.secondaryDemodulator.caps.fmt = COMPLEX_FLOAT THEN [src |-> "selector"]
    ELSE [src |-> "audio", id |-> c.audioBuffer.id]

(***************************************************************************)
(* C14: after setSecondaryDemodulator(new) ran to its end with new not     *)
(* None, new reads the buffer the secondary selector writes when there is  *)
(* a secondary selector, else the selector buffer when its input format is *)
(* COMPLEX_FLOAT, else the audio buffer the chain has now; its writer is   *)
(* secondaryWriter.                                                        *)
(***************************************************************************)
SecondaryInputWired ==
    [][ (SecondarySet /\ op'.arg # None)
        => /\ chain'.secondaryDemodulator.caps = op'.arg.caps
           /\ chain'.secondaryDemodulator.id = op'.arg.id
           /\ chain'.secondaryDemodulator.reader = SecondaryInput(chain')
           /\ chain'.secondaryDemodulator.writer = chain'.secondaryWriter ]_vars

\* a primary of another format replaced the audio buffer, then a secondary
\* that takes audio was set: it reads the new audio buffer
SecondaryInputWiredWitness ==
    /\ op.name = "setSecondaryDemodulator"
    /\ op.n = 2
    /\ chain.exc = "none"
    /\ chain.secondaryDemodulator # None
    /\ chain.secondaryDemodulator.id = 1
    /\ chain.audioBuffer.id # 0
    /\ chain.secondaryDemodulator.reader = [src |-> "audio", id |-> chain.audioBuffer.id]

\* the onSecondaryDspBandwidthChange notifications of the call that ran last
BandwidthChanges(c) == SelectSeq(c.events, LAMBDA e : "bw" \in DOMAIN e)

(***************************************************************************)
(* C15: after setSecondaryDemodulator(new) ran to its end there is a       *)
(* secondary selector exactly when new is a SecondarySelectorChain; the    *)
(* selector was then built at the selector output rate derived for the new *)
(* pair and at new's bandwidth, reads the selector buffer, has the         *)
(* frequency offset secondaryFrequencyOffset, and the call notified        *)
(* onSecondaryDspBandwidthChange(bandwidth) exactly once.                  *)
(***************************************************************************)
SecondarySelectorLifecycle ==
    [][ SecondarySet
        => /\ chain'.secondarySelector # None <=> IsSecondarySelectorChain(op'.arg)
           /\ IsSecondarySelectorChain(op'.arg)
                 => /\ chain'.secondarySelector =
                          [kind |-> "secsel",
                           rate |-> _getSelectorOutputRate(chain'),
                           bandwidth |-> op'.arg.caps.bandwidth,
                           reader |-> "selectorBuffer",
                           frequencyOffset |-> chain'.secondaryFrequencyOffset]
                    /\ chain'.secondarySelector.rate = chain'.selector.outputRate
                    /\ BandwidthChanges(chain') = <<[bw |-> op'.arg.caps.bandwidth]>> ]_vars

\* the secondary frequency offset was set, then a narrow-band secondary: its
\* selector has that offset
SecondarySelectorLifecycleWitness ==
    /\ op.name = "setSecondaryDemodulator"
    /\ op.n = 2
    /\ chain.exc = "none"
    /\ IsSecondarySelectorChain(op.arg)
    /\ chain.secondarySelector # None
    /\ chain.secondarySelector.frequencyOffset = 1
    /\ Len(BandwidthChanges(chain)) = 1

----------------------------------------------------------------------------
(* stopDemodulator, under SpecSteps: it has returned when the handler of   *)
(* mod goes on to line 641                                                 *)

\* the step in which stopDemodulator returns: from line 135, or from line 146
StopDemodulatorReturns ==
    /\ threads.handler.pc \in {"idle", "clear"}
    /\ threads'.handler.pc = "format"

(***************************************************************************)
(* C16: when stopDemodulator returns, stage 1 is a dummy with the output   *)
(* format of the primary it replaced, that primary was stopped, the chain  *)
(* has no primary, and no secondary demodulator, secondary selector or     *)
(* secondary FFT chain is left.                                            *)
(***************************************************************************)
StopDemodulatorClears ==
    [][ StopDemodulatorReturns
        => /\ chain'.workers1.dummy
           /\ chain'.demodulator = None
           /\ chain'.secondaryDemodulator = None
           /\ chain'.secondarySelector = None
           /\ chain'.secondaryFftChain = None
           /\ threads.handler.pc = "clear"
                 => /\ chain'.workers1.format = chain.demodulator.caps.fmt
                    /\ Ident(chain.demodulator) \in chain'.stopped ]_vars

----------------------------------------------------------------------------
(* The parameters of the mode, under SpecSetters *)

(***************************************************************************)
(* C17: whatever calls of setDemodulator, setWfmDeemphasisTau, setRdsRbds  *)
(* and setMetaWriter (and of the other setters) were made, a primary that  *)
(* is a DeemphasisTauChain received wfmDeemphasisTau last, a primary that  *)
(* is an RdsChain received rdsRbds last, and a primary that is a           *)
(* MetaProvider has the chain's metaWriter whenever that is not None.      *)
(* (The primary the constructor is given, line 493, is none of the three;  *)
(* every other primary arrives through setDemodulator.)                    *)
(***************************************************************************)
ModeParametersFollow ==
    /\ IsDeemphasisTauChain(chain.demodulator)
          => chain.demodulator.tau = chain.wfmDeemphasisTau
    /\ IsRdsChain(chain.demodulator)
          => chain.demodulator.rdsRbds = chain.rdsRbds
    /\ (IsMetaProvider(chain.demodulator) /\ chain.metaWriter # 0)
          => chain.demodulator.metaWriter = chain.metaWriter

\* tau and the meta writer were set under one primary, then a wideband
\* primary was set: it has both
ModeParametersFollowWitness ==
    /\ op.name = "setDemodulator"
    /\ op.n = 2
    /\ chain.demodulator # None
    /\ chain.demodulator.id = 1
    /\ chain.demodulator.caps = Wide
    /\ \/ chain.wfmDeemphasisTau = 75 /\ chain.demodulator.tau = 75
       \/ chain.metaWriter = 1 /\ chain.demodulator.metaWriter = 1

----------------------------------------------------------------------------
(* The setters of the output rates, under SpecSetters *)

\* the rates the selector, the primary and the secondary work at
StageRates(c) ==
    <<c.selector.outputRate, c.demodulator.rate,
      IF c.secondaryDemodulator = None THEN 0 ELSE c.secondaryDemodulator.rate>>

\* the rates after _updateDemodulatorOutputRate(r) pushed r to the three
PushedRates(c, r) == <<r, r, IF c.secondaryDemodulator = None THEN 0 ELSE r>>

(***************************************************************************)
(* C18: setOutputRate(r) under an HdAudio primary and setHdOutputRate(r)   *)
(* under a primary that is not HdAudio change outputRate (hdOutputRate)    *)
(* and nothing else.  A call whose rate is the one in use and differs from *)
(* the recorded one gives r to the selector, the primary and the secondary *)
(* unless the primary is a FixedIfSampleRateChain, which leaves the three  *)
(* alone, and gives r to the client rate of the ClientAudioChain unless    *)
(* the primary is a FixedAudioRateChain, which leaves it alone.            *)
(***************************************************************************)
OutputRateSetters ==
    [][ LET hd == IsHdAudio(chain.demodulator)
            r == op'.arg
            plain == op'.name = "setOutputRate"
            recorded == IF plain THEN [Fields(chain) EXCEPT !.outputRate = r]
                        ELSE [Fields(chain) EXCEPT !.hdOutputRate = r]
        IN op'.name \in {"setOutputRate", "setHdOutputRate"}
           => /\ chain'.exc = "none"
              /\ (IF plain THEN chain'.outputRate ELSE chain'.hdOutputRate) = r
              /\ plain = hd => (Fields(chain') = recorded /\ chain'.calls = 0)
              /\ (plain # hd /\ Fields(chain') # Fields(chain))
                    => /\ StageRates(chain') =
                             IF IsFixedIfSampleRateChain(chain.demodulator)
                             THEN StageRates(chain) ELSE PushedRates(chain, r)
                       /\ chain'.clientAudioChain.clientRate =
                             IF IsFixedAudioRateChain(chain.demodulator)
                             THEN chain.clientAudioChain.clientRate ELSE r
                       /\ chain'.clientAudioChain.inputRate = chain.clientAudioChain.inputRate ]_vars

\* setOutputRate reached the selector, the primary, a secondary and the
\* ClientAudioChain
OutputRateSettersWitness ==
    /\ op.name = "setOutputRate"
    /\ op.arg = 2
    /\ chain.outputRate = 2
    /\ chain.secondaryDemodulator # None
    /\ StageRates(chain) = <<2, 2, 2>>
    /\ chain.clientAudioChain.clientRate = 2

----------------------------------------------------------------------------
(* The value setSecondaryFftCompression returns, under SpecSetters *)

(***************************************************************************)
(* C19: setSecondaryFftCompression(compression) returns True exactly when  *)
(* getSecondaryFftOutputFormat() gives another format after the call than  *)
(* before it, with a secondary FFT chain and without one.                  *)
(***************************************************************************)
FftCompressionReturn ==
    [][ op'.name = "setSecondaryFftCompression"
        => ( setSecondaryFftCompressionReturns(chain, op'.arg)
             <=> getSecondaryFftOutputFormat(chain') # getSecondaryFftOutputFormat(chain) ) ]_vars

----------------------------------------------------------------------------
(* start() and the events of the SDR source: SpecStart.  mstate has the    *)
(* state of the source, startOnAvailable and the number of readers of the  *)
(* source's buffer given to the chain; op has whether the operation gave   *)
(* one, and whether a start() that found the source unavailable is still   *)
(* waiting for RUNNING.                                                    *)

\* the states the source reports: the two that onStateChange tells apart and
\* one of the others
SdrSourceStates == {"STOPPED", "RUNNING", "STOPPING"}

\* self.sdrSource.isAvailable()
isAvailable(ms) == ms.source = "RUNNING"

\* lines 841-845
DspManager_start(ms) ==
    IF isAvailable(ms) THEN [ms EXCEPT !.attached = @ + 1]
    ELSE [ms EXCEPT !.startOnAvailable = TRUE]

\* lines 923-927 without line 927: the flag outlives the event
onStateChange_runningKept(ms) ==
    IF ms.startOnAvailable THEN [ms EXCEPT !.attached = @ + 1]
    ELSE ms

\* lines 923-927
onStateChange_running(ms) ==
    IF ms.startOnAvailable
    THEN [ms EXCEPT !.attached = @ + 1, !.startOnAvailable = FALSE]
    ELSE ms

\* lines 893-906 without lines 897-898: the readers are dropped unstopped
DspManager_stopReadersKept(m) ==
    [m EXCEPT !.chain = NoChain,
              !.readers = [t \in Channels |-> 0],
              !.mstate = [@ EXCEPT !.stopped = @ \cup (IF m.chain = NoChain THEN {}
                                                       ELSE stop(BeginOp(m.chain)).stopped),
                                   !.startOnAvailable = FALSE,
                                   !.client = FALSE,
                                   !.subscribed = FALSE,
                                   !.rigControl = FALSE]]

\* lines 893-906 without lines 903-905: the subscriptions stand
DspManager_stopSubscribed(m) ==
    [m EXCEPT !.chain = NoChain,
              !.readers = [t \in Channels |-> 0],
              !.mstate = [@ EXCEPT !.stopped = @ \cup (IF m.chain = NoChain THEN {}
                                                       ELSE stop(BeginOp(m.chain)).stopped),
                                   !.live = @ \ {[t |-> t, n |-> m.readers[t]] :
                                                    t \in Channels},
                                   !.startOnAvailable = FALSE,
                                   !.client = FALSE,
                                   !.rigControl = FALSE]]

\* lines 893-906: m has the chain, the readers and mstate, which has what
\* chain.stop() stopped, the readers not stopped yet, startOnAvailable,
\* whether the manager is a client of the source, whether its
\* subscriptions stand and whether rigControl runs
DspManager_stop(m) ==
    [m EXCEPT !.chain = NoChain,
              !.readers = [t \in Channels |-> 0],
              !.mstate = [@ EXCEPT !.stopped = @ \cup (IF m.chain = NoChain THEN {}
                                                       ELSE stop(BeginOp(m.chain)).stopped),
                                   !.live = @ \ {[t |-> t, n |-> m.readers[t]] :
                                                    t \in Channels},
                                   !.startOnAvailable = FALSE,
                                   !.client = FALSE,
                                   !.subscribed = FALSE,
                                   !.rigControl = FALSE]]

\* the manager after __init__ with all of mstate: lines 572-576
StartedManager ==
    [InitialManager EXCEPT !.mstate =
        [live |-> InitialManager.mstate.live, wired |-> {}, subscribed |-> TRUE,
         client |-> TRUE, rigControl |-> TRUE, stopped |-> {},
         source |-> "STOPPED", startOnAvailable |-> FALSE, attached |-> 0]]

InitStart ==
    /\ chain = InitialManager.chain
    /\ audioOutput = InitialManager.audioOutput
    /\ readers = InitialManager.readers
    /\ props = InitialManager.props
    /\ client = InitialManager.client
    /\ \E state \in {"STOPPED", "RUNNING"} :
          mstate = [StartedManager.mstate EXCEPT !.source = state]
    /\ op = [name |-> "__init__", arg |-> "", exc |-> "none", starts |-> 0,
             attached |-> FALSE, deferred |-> FALSE]
    /\ threads = IdleThreads
    /\ ret = [sel |-> [done |-> FALSE, raised |-> FALSE, value |-> 0],
              aud |-> [done |-> FALSE, raised |-> FALSE, value |-> 0]]

\* start(); self.chain is None after stop(), and setReader on it raises
Start ==
    LET raises == isAvailable(mstate) /\ chain = NoChain
    IN /\ op.starts < MaxStarts
       /\ mstate' = IF raises THEN mstate ELSE DspManager_start(mstate)
       /\ op' = [name |-> "start", arg |-> "",
                 exc |-> IF raises THEN "AttributeError" ELSE "none",
                 starts |-> op.starts + 1,
                 attached |-> isAvailable(mstate) /\ ~raises,
                 deferred |-> op.deferred \/ ~isAvailable(mstate)]
       /\ UNCHANGED <<chain, audioOutput, readers, props, client, ret, threads>>

\* the source goes to another state and tells its clients: onStateChange
OnStateChange ==
    \E state \in SdrSourceStates \ {mstate.source} :
        LET ms == [mstate EXCEPT !.source = state]
            told == mstate.client
            raises == told /\ state = "RUNNING" /\ ms.startOnAvailable /\ chain = NoChain
            m == IF told /\ state = "STOPPING"
                 THEN DspManager_stop([chain |-> chain, readers |-> readers, mstate |-> ms])
                 ELSE [chain |-> chain, readers |-> readers, mstate |-> ms]
        IN /\ mstate' = IF ~told \/ raises THEN ms
                        ELSE IF state = "RUNNING" THEN onStateChange_running(ms)
                        ELSE m.mstate
           /\ chain' = m.chain
           /\ readers' = m.readers
           /\ op' = [op EXCEPT !.name = "onStateChange", !.arg = state,
                               !.exc = IF raises THEN "AttributeError" ELSE "none",
                               !.attached = mstate'.attached # mstate.attached,
                               !.deferred = @ /\ ~(told /\ state = "RUNNING")]
           /\ UNCHANGED <<audioOutput, props, client, ret, threads>>

\* onFail, onShutdown: stop()
OnFail ==
    /\ mstate.client
    /\ mstate' = DspManager_stop([chain |-> chain, readers |-> readers,
                                  mstate |-> mstate]).mstate
    /\ chain' = NoChain
    /\ readers' = [t \in Channels |-> 0]
    /\ op' = [op EXCEPT !.name = "onFail", !.arg = "", !.exc = "none",
                        !.attached = FALSE]
    /\ UNCHANGED <<audioOutput, props, client, ret, threads>>

NextStart ==
    \/ Start
    \/ OnStateChange
    \/ OnFail

SpecStart == InitStart /\ [][NextStart]_vars

(***************************************************************************)
(* C20: start() while the source is not available gives the chain no       *)
(* reader and sets startOnAvailable; the next onStateChange(RUNNING) the   *)
(* manager is told of gives the chain one reader and clears the flag, and  *)
(* an onStateChange(RUNNING) with no such start() before it gives none;    *)
(* start() while the source is available gives the chain a reader at once. *)
(***************************************************************************)
DeferredStart ==
    [][ /\ (op'.name = "start" /\ op'.starts # op.starts /\ op'.exc = "none")
           => IF isAvailable(mstate)
              THEN /\ mstate'.attached = mstate.attached + 1
                   /\ mstate'.startOnAvailable = mstate.startOnAvailable
              ELSE /\ mstate'.attached = mstate.attached
                   /\ mstate'.startOnAvailable
        /\ (op'.name = "onStateChange" /\ op'.arg = "RUNNING" /\ mstate.client
               /\ mstate.source # "RUNNING")
           => /\ mstate'.attached = mstate.attached + (IF op.deferred THEN 1 ELSE 0)
              /\ ~mstate'.startOnAvailable
              /\ op'.exc = "none" ]_vars

\* a start() found the source unavailable, and the RUNNING after it gave the
\* chain its reader
DeferredStartWitness ==
    /\ op.name = "onStateChange"
    /\ op.arg = "RUNNING"
    /\ op.attached
    /\ op.starts = 1
    /\ mstate.attached = 1
    /\ ~mstate.startOnAvailable
    /\ mstate.client

----------------------------------------------------------------------------
(* The handlers of mod and secondary_mod, then the end of the source:      *)
(* SpecShutdown                                                            *)

InitShutdown ==
    /\ chain = StartedManager.chain
    /\ audioOutput = StartedManager.audioOutput
    /\ readers = StartedManager.readers
    /\ props = StartedManager.props
    /\ client = StartedManager.client
    /\ mstate = StartedManager.mstate
    /\ op = [name |-> "__init__", arg |-> "", exc |-> "none"]
    /\ threads = IdleThreads
    /\ ret = [sel |-> [done |-> FALSE, raised |-> FALSE, value |-> 0],
              aud |-> [done |-> FALSE, raised |-> FALSE, value |-> 0]]

\* the subscriptions of lines 541 and 546, while they stand
ShutSetMod == mstate.subscribed /\ SetMod
ShutSetSecondaryMod == mstate.subscribed /\ SetSecondaryMod

\* the handlers that call stop(): onStateChange(STOPPING), lines 927-930,
\* onFail, lines 932-934, onShutdown, lines 936-937
ShutdownHandlers == {"onStateChange", "onFail", "onShutdown"}

Shutdown ==
    \E h \in ShutdownHandlers :
        /\ h = "onStateChange" => mstate.client
        /\ Handled(DspManager_stop(Current), h,
                   IF h = "onStateChange" THEN "STOPPING" ELSE "")
        /\ UNCHANGED <<ret, threads>>

NextShutdown ==
    \/ ShutSetMod
    \/ ShutSetSecondaryMod
    \/ Shutdown

SpecShutdown == InitShutdown /\ [][NextShutdown]_vars

\* what chain.stop() has to stop in chain c
StagesOf(c) ==
    {[what |-> "selector"], c.workers1.ident, [what |-> "clientAudioChain"]}
       \cup (IF c.secondaryDemodulator = None THEN {} ELSE {Ident(c.secondaryDemodulator)})
       \cup (IF c.secondaryFftChain = None THEN {} ELSE {[what |-> "fft"]})

(***************************************************************************)
(* C21: each of onStateChange(STOPPING), onFail() and onShutdown() leaves  *)
(* the manager with its chain stopped (the selector, stage 1, the          *)
(* ClientAudioChain, the secondary demodulator and the secondary FFT       *)
(* chain) and dropped, every reader opened for an output stopped and the   *)
(* readers map empty, the manager no client of the source, its             *)
(* subscriptions cancelled and rigControl stopped.                         *)
(***************************************************************************)
SourceShutdown ==
    [][ op'.name \in ShutdownHandlers
        => /\ chain' = NoChain
           /\ chain # NoChain => StagesOf(chain) \subseteq mstate'.stopped
           /\ mstate'.live = {}
           /\ \A t \in Channels : readers'[t] = 0
           /\ ~mstate'.client
           /\ ~mstate'.subscribed
           /\ ~mstate'.rigControl
           /\ op'.exc = "none" ]_vars

\* the source failed after a wideband mode and a secondary were set
SourceShutdownWitness ==
    /\ op.name = "onFail"
    /\ chain = NoChain
    /\ [what |-> "fft"] \in mstate.stopped
    /\ props.mod = "wfm"
    /\ mstate.live = {}
    /\ ~mstate.client

----------------------------------------------------------------------------
(* wireOutput and unwireOutput called in any order: SpecWire *)

WireOutput ==
    \E t \in Channels :
        /\ threads.handler.pc = "idle"
        /\ Handled(wireOutput(Manager, t), "wireOutput", t)
        /\ UNCHANGED <<ret, threads>>

UnwireOutput ==
    \E t \in Channels :
        /\ threads.handler.pc = "idle"
        /\ Handled(unwireOutput(Manager, t), "unwireOutput", t)
        /\ UNCHANGED <<ret, threads>>

NextWire ==
    \/ WireOutput
    \/ UnwireOutput

SpecWire == Init /\ [][NextWire]_vars

\* the readers opened for channel t and not stopped
Unstopped(t) == {r \in mstate.live : r.t = t}

(***************************************************************************)
(* C22: after any calls of wireOutput and unwireOutput the readers that    *)
(* were opened for a channel and are not stopped are the one registered    *)
(* for it in the readers map, or none: at most one a channel, and every    *)
(* reader that was replaced or unwired is stopped.                         *)
(***************************************************************************)
OutputRewiring ==
    \A t \in Channels :
        Unstopped(t) = IF readers[t] = 0 THEN {}
                       ELSE {[t |-> t, n |-> readers[t]]}

\* a channel that had a reader was wired again and has one reader
OutputRewiringWitness ==
    /\ op.name = "wireOutput"
    /\ op.arg = "meta"
    /\ readers["meta"] # 0
    /\ Cardinality(Unstopped("meta")) = 1
    /\ "meta" \in mstate.wired


(***************************************************************************)
(* Meta and secondary_demod output: DspManager._unpickle (dsp.py 871-891). *)
(* A chunk is its first bytes (at most two are looked at) followed by what *)
(* pickle.load finds behind them, one entry per call of pickle.load:       *)
(*   "r1", "r2"   a complete record,                                       *)
(*   "cut"        the stream ends where an opcode is expected, inside a    *)
(*                record that has no STOP yet (EOFError, as at a clean     *)
(*                end of the stream),                                      *)
(*   "truncated"  the stream ends inside the argument of an opcode         *)
(*                (pickle.UnpicklingError),                                *)
(*   "invalid"    an invalid load key (pickle.UnpicklingError),            *)
(*   "missing"    a global that cannot be imported (ModuleNotFoundError).  *)
(***************************************************************************)
MaxRecords == 2
HIGHEST_PROTOCOL == 5
ReplacementChar == 65533

HeadBytes == {128, 2, 4, 6, 65}
Records == {"r1", "r2"}
Failures == {"cut", "truncated", "invalid", "missing"}

SeqsUpTo(S, n) == UNION {[1..k -> S] : k \in 0..n}

Chunks ==
    {[head |-> h, body |-> <<>>] : h \in SeqsUpTo(HeadBytes, 1)}
    \cup {[head |-> h, body |-> b] : h \in [1..2 -> HeadBytes],
                                     b \in SeqsUpTo(Records \cup Failures, MaxRecords)}

\* bytes.decode("ascii", errors="replace"): a byte above 127 becomes U+FFFD
decodeAscii(b) ==
    [head |-> [i \in DOMAIN b.head |-> IF b.head[i] > 127 THEN ReplacementChar ELSE b.head[i]],
     body |-> b.body]

\* len(b) applies to the whole chunk: the body lies behind a two byte head
isPickle(b) ==
    ~ (Len(b.head) < 2 \/ b.head[1] # 128 \/ ~ (3 <= b.head[2] /\ b.head[2] <= HIGHEST_PROTOCOL))

\* pickle.load(io) with io at entry pos of the body
pickle_load(b, pos) ==
    IF pos > Len(b.body) THEN [raises |-> "EOFError"]
    ELSE IF b.body[pos] \in Records THEN [raises |-> "none", value |-> b.body[pos]]
    ELSE IF b.body[pos] = "cut" THEN [raises |-> "EOFError"]
    ELSE IF b.body[pos] \in {"truncated", "invalid"} THEN [raises |-> "UnpicklingError"]
    ELSE [raises |-> "ModuleNotFoundError"]

RECURSIVE unpickler_loop(_, _, _)
unpickler_loop(b, pos, delivered) ==
    LET r == pickle_load(b, pos)
    IN  IF r.raises = "none"
        THEN unpickler_loop(b, pos + 1, Append(delivered, [record |-> r.value]))
        ELSE IF r.raises = "EOFError"
        THEN [delivered |-> delivered, raised |-> "none"]
        ELSE IF r.raises = "UnpicklingError"
        THEN [delivered |-> Append(delivered, [text |-> decodeAscii(b)]), raised |-> "none"]
        ELSE [delivered |-> delivered, raised |-> r.raises]

unpickler(b) ==
    IF ~ isPickle(b)
    THEN [delivered |-> <<[text |-> decodeAscii(b)]>>, raised |-> "none"]
    ELSE unpickler_loop(b, 1, <<>>)

InitUnpickle ==
    /\ chain = NoChain /\ audioOutput = "None"
    /\ readers = <<>> /\ props = <<>> /\ client = <<>> /\ mstate = <<>> /\ threads = <<>>
    /\ \E b \in Chunks : op = [name |-> "chunk", arg |-> b]
    /\ ret = [done |-> FALSE]

Unpickle ==
    /\ ~ ret.done
    /\ ret' = [done |-> TRUE, out |-> unpickler(op.arg)]
    /\ op' = [op EXCEPT !.name = "unpickler"]
    /\ UNCHANGED <<chain, audioOutput, readers, props, client, mstate, threads>>

NextUnpickle == Unpickle

SpecUnpickle == InitUnpickle /\ [][NextUnpickle]_vars

\* the records of a body up to its first entry that is not one
RECURSIVE LeadingRecords(_)
LeadingRecords(body) ==
    IF body = <<>> \/ Head(body) \notin Records THEN <<>>
    ELSE <<[record |-> Head(body)]>> \o LeadingRecords(Tail(body))

DecodingFails(b) == \E i \in DOMAIN b.body : b.body[i] \in Failures

(* C23: a chunk shorter than two bytes, or whose first byte is not 0x80,   *)
(* or whose second byte is not a protocol number in 3..HIGHEST_PROTOCOL,   *)
(* is handed to the callback exactly once as ASCII text; any other chunk   *)
(* is decoded as a stream of records, each delivered once and in order,    *)
(* and when decoding fails the chunk is delivered as best-effort ASCII     *)
(* text after the records decoded before the failure.                      *)
MetaDecoding ==
    ret.done =>
        LET b == op.arg
            text == <<[text |-> decodeAscii(b)]>>
        IN  /\ ret.out.raised = "none"
            /\ ret.out.delivered =
                   IF ~ isPickle(b) THEN text
                   ELSE IF DecodingFails(b) THEN LeadingRecords(b.body) \o text
                   ELSE LeadingRecords(b.body)

\* the same with the failures left out: what the code does on every chunk
\* that is plain text or a well-formed stream
MetaDecodingWellFormed ==
    ret.done /\ ~ (isPickle(op.arg) /\ DecodingFails(op.arg)) =>
        /\ ret.out.raised = "none"
        /\ ret.out.delivered = IF ~ isPickle(op.arg) THEN <<[text |-> decodeAscii(op.arg)]>>
                               ELSE LeadingRecords(op.arg.body)


(***************************************************************************)
(* Slot filter and audio service: setSlotFilter and setAudioServiceId      *)
(* (dsp.py 339-347) on chains with every kind of primary and with none.    *)
(***************************************************************************)
MaxId == 2

\* every primary with and without a secondary, and a chain whose primary
\* was removed by stopDemodulator
SelectorChains ==
    {Fields(setSecondaryDemodulator(setDemodulator(InitialChain, NewPrimary(k, 0)), s)) :
        k \in {Analog, Wide, Voice, FixedAudio, Dab}, s \in {None, NewSecondary(Chopper, 0)}}
    \cup {Fields(stopDemodulator(InitialChain))}

InitSelectors ==
    /\ chain \in SelectorChains
    /\ op = [name |-> "init", n |-> 0, repeat |-> FALSE]
    /\ Unused

CallSetSlotFilter ==
    \E a \in 0..MaxId :
        /\ op.n < MaxCalls
        /\ Called(setSlotFilter(BeginOp(chain), a), "setSlotFilter", a)

CallSetAudioServiceId ==
    \E a \in 0..MaxId :
        /\ op.n < MaxCalls
        /\ Called(setAudioServiceId(BeginOp(chain), a), "setAudioServiceId", a)

NextSelectors == CallSetSlotFilter \/ CallSetAudioServiceId

SpecSelectors == InitSelectors /\ [][NextSelectors]_vars

(* C24: setSlotFilter(i) and setAudioServiceId(i) call no stage and change *)
(* no state unless the primary in place is a SlotFilterChain, respectively *)
(* an AudioServiceSelector; then the value is forwarded to the primary, in *)
(* one call, and nothing else changes.                                     *)
SlotAndServiceForwarding ==
    [][/\ op'.name = "setSlotFilter" =>
            IF IsSlotFilterChain(chain.demodulator)
            THEN chain' = [Fields(chain) EXCEPT !.demodulator.slotFilter = op'.arg, !.calls = 1]
            ELSE chain' = Fields(chain)
       /\ op'.name = "setAudioServiceId" =>
            IF IsAudioServiceSelector(chain.demodulator)
            THEN chain' = [Fields(chain) EXCEPT !.demodulator.serviceId = op'.arg, !.calls = 1]
            ELSE chain' = Fields(chain)]_vars

SlotAndServiceForwardingWitness ==
    /\ op.name = "setAudioServiceId" /\ op.n = 2
    /\ chain.demodulator # None /\ chain.demodulator.caps = Voice
    /\ chain.demodulator.slotFilter = 1 /\ chain.demodulator.serviceId = NoFreq
    /\ chain.calls = 0


(***************************************************************************)
(* The mode registry (modes.py).  A mode is a record of the attributes its *)
(* constructor stores and of its class; an argument the caller leaves out  *)
(* is written here with the default of the signature (lines 14, 53-64).    *)
(* has is the set of requirements FeatureDetector.has_requirement finds.   *)
(***************************************************************************)
Bandpass(low_cut, high_cut) == [low_cut |-> low_cut, high_cut |-> high_cut]

\* an ifRate that is not None
IfRate(hz) == [hz |-> hz]

\* Mode.__init__, lines 14-21; requirements is a list, the empty one for None
Mode(modulation, name, bandpass, ifRate, requirements, service, squelch) ==
    [class |-> "Mode", modulation |-> modulation, name |-> name,
     requirements |-> requirements, service |-> service, bandpass |-> bandpass,
     ifRate |-> ifRate, squelch |-> squelch]

EmptyMode == Mode("empty", "Empty", None, None, <<>>, FALSE, TRUE)

AnalogMode(modulation, name, bandpass, ifRate, requirements, service, squelch) ==
    [Mode(modulation, name, bandpass, ifRate, requirements, service, squelch)
        EXCEPT !.class = "AnalogMode"]

\* DigitalMode.__init__, lines 53-67
DigitalMode(modulation, name, underlying, bandpass, ifRate, requirements, service, squelch, secondaryFft) ==
    [class |-> "DigitalMode", modulation |-> modulation, name |-> name,
     requirements |-> requirements, service |-> service, bandpass |-> bandpass,
     ifRate |-> ifRate, squelch |-> squelch, underlying |-> underlying,
     secondaryFft |-> secondaryFft]

\* the call of super().__init__ passes no squelch: the default applies
AudioChopperMode(modulation, name, bandpass, requirements) ==
    [DigitalMode(modulation, name, <<"usb">>,
                 IF bandpass = None THEN Bandpass(0, 3000) ELSE bandpass,
                 None, requirements, TRUE, TRUE, TRUE)
        EXCEPT !.class = "AudioChopperMode"]

\* WsjtMode(modulation, name): requirements is None and becomes ["wsjt-x"]
WsjtMode(modulation, name) ==
    [AudioChopperMode(modulation, name, None, <<"wsjt-x">>) EXCEPT !.class = "WsjtMode"]

\* Modes.mappings, in its order: the entries of the mode tokens of the
\* model, and lsb, rtty170 and adsb
Modes_mappings ==
    << AnalogMode("nfm", "FM", Bandpass(-4000, 4000), None, <<>>, FALSE, TRUE),
       AnalogMode("wfm", "WFM", Bandpass(-75000, 75000), None, <<>>, FALSE, TRUE),
       AnalogMode("lsb", "LSB", Bandpass(-2750, -150), None, <<>>, FALSE, TRUE),
       AnalogMode("usb", "USB", Bandpass(150, 2750), None, <<>>, FALSE, TRUE),
       AnalogMode("dmr", "DMR", Bandpass(-6250, 6250), None,
                  <<"digital_voice_digiham">>, FALSE, FALSE),
       AnalogMode("freedv", "FreeDV", Bandpass(300, 3000), None,
                  <<"digital_voice_freedv">>, FALSE, FALSE),
       AnalogMode("dab", "DAB", None, IfRate(2048000), <<"dab">>, FALSE, FALSE),
       DigitalMode("bpsk31", "BPSK31", <<"usb">>, None, None, <<>>, FALSE, TRUE, TRUE),
       DigitalMode("rtty170", "RTTY-170 (45)", <<"usb", "lsb">>, None, None, <<>>,
                   FALSE, TRUE, TRUE),
       WsjtMode("ft8", "FT8"),
       DigitalMode("adsb", "ADSB", <<"empty">>, None, IfRate(2400000), <<"adsb">>,
                   TRUE, FALSE, FALSE),
       DigitalMode("streamer", "Streamer", <<"empty">>, Bandpass(-18000, 18000), None,
                   <<"streamer">>, TRUE, FALSE, TRUE) >>

\* isinstance(mode, DigitalMode); hasattr(mode, "underlying")
IsDigitalMode(mode) == "underlying" \in DOMAIN mode

ElementsOf(list) == {list[i] : i \in DOMAIN list}

\* DigitalMode.for_underlying, lines 89-94: the call of line 92 passes no
\* secondaryFft, and the default applies
for_underlying(self, underlying) ==
    IF underlying \notin ElementsOf(self.underlying)
    THEN [raised |-> "ValueError", value |-> None]
    ELSE [raised |-> "none",
          value |-> DigitalMode(self.modulation, self.name, <<underlying>>,
                                self.bandpass, self.ifRate, self.requirements,
                                self.service, self.squelch, TRUE)]

\* FeatureDetector.features, feature.py 50-113: the features the modes of
\* the model require
FeatureDetector_features ==
    [feature \in {"digital_voice_digiham", "digital_voice_freedv", "wsjt-x", "adsb",
                  "dab", "streamer"} |->
        CASE feature = "digital_voice_digiham" -> <<"digiham", "codecserver_ambe">>
          [] feature = "digital_voice_freedv" -> <<"freedv_rx">>
          [] feature = "wsjt-x" -> <<"wsjtx">>
          [] feature = "adsb" -> <<"dump1090">>
          [] feature = "dab" -> <<"csdreti", "dablin">>
          [] feature = "streamer" -> <<"streamer">>]

ModeRequirements ==
    UNION {ElementsOf(FeatureDetector_features[f]) : f \in DOMAIN FeatureDetector_features}

\* FeatureDetector.is_available, feature.py 136-152
FeatureDetector_is_available(has, feature) ==
    \A requirement \in ElementsOf(FeatureDetector_features[feature]) : requirement \in has

\* Mode.is_available, lines 23-25
Mode_is_available(has, mode) ==
    \A r \in ElementsOf(mode.requirements) : FeatureDetector_is_available(has, r)

\* Modes.getAvailableModes, lines 464-466
getAvailableModes(has) ==
    SelectSeq(Modes_mappings, LAMBDA mode : Mode_is_available(has, mode))

\* mutant: the modes are looked up whether they are available or not
findByModulationOfAll(has, modulation) ==
    LET modes == SelectSeq(Modes_mappings, LAMBDA mode : mode.modulation = modulation)
    IN IF modes # <<>> THEN modes[1] ELSE None

\* Modes.findByModulation, lines 476-480
findByModulation(has, modulation) ==
    LET modes == SelectSeq(getAvailableModes(has),
                           LAMBDA mode : mode.modulation = modulation)
    IN IF modes # <<>> THEN modes[1] ELSE None

\* DigitalMode.get_underlying_mode, lines 69-73
get_underlying_mode(has, self) ==
    LET mode == findByModulation(has, self.underlying[1])
    IN IF mode = None THEN EmptyMode ELSE mode

\* Mode.get_modulation, lines 32-33, and DigitalMode.get_modulation, lines
\* 86-87
RECURSIVE get_modulation(_, _)
get_modulation(has, self) ==
    IF IsDigitalMode(self) THEN get_modulation(has, get_underlying_mode(has, self))
    ELSE self.modulation

\* mod = usb and secondary_mod = ft8 are in effect
Ft8OverUsbInEffect ==
    /\ chain # NoChain
    /\ props.mod = "usb" /\ props.secondary_mod = "ft8"
    /\ chain.demodulator # None /\ chain.demodulator.caps = PrimaryClassOf("usb")
    /\ chain.secondaryDemodulator # None
    /\ chain.secondaryDemodulator.caps = SecondaryClassOf("ft8")

(* C25: with mod = usb and secondary_mod = ft8 the selector's squelch is   *)
(* -150 whatever squelch_level the user set, the ft8 mode is flagged as    *)
(* not allowing squelch, and its secondary demodulator does not support    *)
(* squelch.                                                                *)
Ft8OverUsb ==
    Ft8OverUsbInEffect =>
        /\ chain.selector.squelchLevel = SquelchOff
        /\ ~ findByModulation(ModeRequirements, "ft8").squelch
        /\ ~ chain.secondaryDemodulator.caps.squelch

\* the part of it that lies in the chain: the selector's squelch is off
Ft8SquelchForced ==
    Ft8OverUsbInEffect =>
        /\ chain.selector.squelchLevel = SquelchOff
        /\ ~ chain.secondaryDemodulator.caps.squelch

Ft8SquelchForcedWitness ==
    /\ Ft8OverUsbInEffect
    /\ chain.squelchLevel # SquelchOff
    /\ chain.selector.squelchLevel = SquelchOff


(***************************************************************************)
(* The chain's stopDemodulator and setDemodulator statement by statement,  *)
(* called in any order on chains with every primary and secondary:         *)
(* SpecSwap.  op.pc is the position inside the call in progress, op.arg    *)
(* the primary handed to setDemodulator.                                   *)
(***************************************************************************)
InitSwap ==
    /\ chain \in SetterChains
    /\ op = [name |-> "init", pc |-> "idle", arg |-> None, n |-> 0]
    /\ Unused

SwapFrame == UNCHANGED <<audioOutput, readers, props, client, ret, mstate, threads>>

\* the call returns, or is left by the exception in c
SwapTo(c, name, pc) ==
    /\ chain' = c
    /\ op' = [op EXCEPT !.name = name, !.pc = IF Raised(c) THEN "idle" ELSE pc]
    /\ SwapFrame

\* lines 95-103; the primary handed over is a fresh object of any class,
\* or the one in place (line 96 returns)
SwapFormat ==
    \E k \in {Analog, Wide, Voice} :
      \E d \in {NewPrimary(k, IF chain.demodulator = None THEN 0
                              ELSE 1 - chain.demodulator.id), chain.demodulator} :
        /\ op.pc = "idle" /\ op.n < MaxCalls /\ d # None
        /\ chain' = IF Is(d, chain.demodulator) THEN BeginOp(chain)
                    ELSE setDemodulator_format(BeginOp(chain), d)
        /\ op' = [name |-> "format", arg |-> d, n |-> op.n + 1,
                  pc |-> IF Is(d, chain.demodulator) THEN "idle" ELSE "adopt"]
        /\ SwapFrame

\* lines 105-125
SwapAdopt ==
    /\ op.pc = "adopt"
    /\ SwapTo(setDemodulator_adopt(chain, op.arg), "adopt", "replace")

\* lines 127-131
SwapReplace ==
    /\ op.pc = "replace"
    /\ SwapTo(setDemodulator_replace(chain), "replace", "idle")

\* lines 134-141
SwapDummy ==
    /\ op.pc = "idle" /\ op.n < MaxCalls
    /\ chain' = IF chain.demodulator = None THEN BeginOp(chain)
                ELSE stopDemodulator_dummy(BeginOp(chain))
    /\ op' = [name |-> "dummy", arg |-> None, n |-> op.n + 1,
              pc |-> IF chain.demodulator = None \/ Raised(chain') THEN "idle" ELSE "clear"]
    /\ SwapFrame

\* lines 143-146
SwapClear ==
    /\ op.pc = "clear"
    /\ SwapTo(stopDemodulator_clear(chain), "clear", "idle")

NextSwap == SwapFormat \/ SwapAdopt \/ SwapReplace \/ SwapDummy \/ SwapClear

SpecSwap == InitSwap /\ [][NextSwap]_vars

\* the primaries the chain refers to, as self.demodulator or at index 1,
\* that were not stopped in the call in progress
RunningPrimaries(c) ==
    ((IF c.demodulator = None THEN {} ELSE {Ident(c.demodulator)})
     \cup (IF c.workers1.dummy THEN {} ELSE {c.workers1.ident})) \ c.stopped

(* C26: on a change of the primary, the old primary is stopped before the  *)
(* new one is installed at index 1; the stage put at index 1, the dummy or *)
(* the new primary, has the format the audio buffer is bound with, the     *)
(* dummy that of the primary it stands for; and at no point does the chain *)
(* hold two primaries that are running.                                    *)
MutationOrdering ==
    [][/\ (op'.name = "replace" /\ chain.workers1 # chain'.workers1)
            => /\ chain'.workers1 = AsWorker(op'.arg)
               /\ ~chain.workers1.dummy => chain.workers1.ident \in chain.stopped
               /\ \A d \in RunningPrimaries(chain') : d = Ident(op'.arg)
       /\ (op'.name \in {"replace", "dummy"} /\ chain.workers1 # chain'.workers1)
            => /\ chain'.audioBuffer.format = chain'.workers1.format
               /\ chain'.clientAudioChain.format = chain'.workers1.format
       /\ (op'.name = "dummy" /\ chain.demodulator # None)
            => /\ chain'.workers1.dummy
               /\ chain'.workers1.format = chain.demodulator.caps.fmt
       /\ Cardinality(RunningPrimaries(chain')) <= 1]_vars

\* a primary of another format took the place of the one in place, which
\* was stopped one step earlier
MutationOrderingWitness ==
    /\ op.name = "replace" /\ op.pc = "idle" /\ op.n = 1
    /\ chain.exc = "none"
    /\ chain.workers1 = AsWorker(op.arg)
    /\ op.arg.id = 1 /\ op.arg.caps = Voice
    /\ chain.audioBuffer.format = SHORT
    /\ [what |-> "demod", caps |-> Analog, id |-> 0] \in chain.stopped


(***************************************************************************)
(* DspManager.setDemodulator, under SpecSteps: what is left of the         *)
(* demodulators when line 641 constructs the new primary                   *)
(***************************************************************************)

(* C27: whenever DspManager.setDemodulator is called, the primary and the  *)
(* secondary demodulator that were in place have been stopped and the      *)
(* chain refers to neither of them when the new primary is constructed.    *)
SetDemodulatorKillsBoth ==
    [][ StopDemodulatorReturns
        => /\ chain'.demodulator = None
           /\ chain'.secondaryDemodulator = None
           /\ chain.demodulator # None
                 => Ident(chain.demodulator) \in chain'.stopped
           /\ chain.secondaryDemodulator # None
                 => Ident(chain.secondaryDemodulator) \in chain'.stopped ]_vars

\* the same for the calls that find a primary in place
SetDemodulatorKillsBothOfPrimary ==
    [][ (StopDemodulatorReturns /\ threads.handler.pc = "clear")
        => /\ chain'.demodulator = None
           /\ chain'.secondaryDemodulator = None
           /\ Ident(chain.demodulator) \in chain'.stopped
           /\ chain.secondaryDemodulator # None
                 => Ident(chain.secondaryDemodulator) \in chain'.stopped ]_vars


----------------------------------------------------------------------------
(* The audio buffer and the secondary demodulators that read audio *)

\* the secondary in place takes audio, not IQ
ReadsAudio(c) ==
    /\ c # NoChain
    /\ c.secondaryDemodulator # None
    /\ c.secondaryDemodulator.caps.fmt # COMPLEX_FLOAT

(* C28: in every state setDemodulator, stopDemodulator and                 *)
(* setSecondaryDemodulator lead to, a secondary demodulator whose input    *)
(* format is not COMPLEX_FLOAT has a reader of the audio buffer in place,  *)
(* also after the audio buffer was allocated anew for another format.      *)
AudioBufferShared ==
    ReadsAudio(chain)
        => chain.secondaryDemodulator.reader = [src |-> "audio", id |-> chain.audioBuffer.id]


(***************************************************************************)
(* The PropertyStack of the manager (dsp.py 433-490) and the handlers      *)
(* wired to it (lines 527-550): SpecProps.  A change arrives either from   *)
(* the client, as a write to the stack, or from the SDR source, as a       *)
(* change of the source's own properties.  The layers themselves           *)
(* (owrx/property) are outside these sources: a layer shows a key, and     *)
(* passes its changes on, iff the key is one it was built with (spec 4.4). *)
(***************************************************************************)
MaxChanges == 2

\* layer 0, validators.keys()
LocalKeys ==
    {"output_rate", "hd_output_rate", "squelch_level", "secondary_mod", "low_cut",
     "high_cut", "offset_freq", "mod", "secondary_offset_freq", "dmr_filter",
     "audio_service_id", "nr_enabled", "nr_threshold"}

\* layer 1, the keys filtered from the SDR source
SourceKeys ==
    {"audio_compression", "fft_compression", "digimodes_fft_size", "samp_rate",
     "center_freq", "start_mod", "start_freq", "wfm_deemphasis_tau", "wfm_rds_rbds",
     "digital_voice_codecserver", "rig_enabled", "dab_output_rate", "ssb_agc_profile"}

\* layer 2, the read-only defaults
DefaultKeys ==
    {"output_rate", "hd_output_rate", "digital_voice_codecserver", "nr_enabled",
     "nr_threshold"}

\* the keys of self.subscriptions
WiredKeys ==
    {"audio_compression", "fft_compression", "fft_voverlap_factor", "fft_fps",
     "digimodes_fft_size", "samp_rate", "output_rate", "hd_output_rate", "offset_freq",
     "center_freq", "squelch_level", "low_cut", "high_cut", "mod", "dmr_filter",
     "audio_service_id", "wfm_deemphasis_tau", "wfm_rds_rbds", "secondary_mod",
     "secondary_offset_freq", "nr_enabled", "nr_threshold"}

\* the keys _getDemodulator reads when it builds a primary
ReadKeys == {"digital_voice_codecserver", "dab_output_rate", "ssb_agc_profile"}

ConsumedKeys == WiredKeys \cup ReadKeys

VisibleKeys == LocalKeys \cup SourceKeys \cup DefaultKeys

\* a change of key passes into the stack: a write of the client lands in
\* the first layer that has the key and can be written; a change at the
\* source comes through the filter of layer 1 unless layer 0 has the key
Passes(key, origin) ==
    IF origin = "client" THEN key \in LocalKeys \cup SourceKeys
    ELSE key \in SourceKeys /\ key \notin LocalKeys

InitProps ==
    /\ chain = NoChain /\ audioOutput = "None"
    /\ readers = <<>> /\ client = <<>> /\ mstate = <<>> /\ threads = <<>>
    /\ props = [changed |-> {}, n |-> 0]
    /\ op = [name |-> "__init__"]
    /\ ret = {}

\* props[key] changes; wireProperty calls the handler of key if the change
\* is one the stack shows.  ret: the keys whose handler was called.
PropertyChange ==
    \E key \in ConsumedKeys, origin \in {"client", "source"} :
        LET fired == key \in WiredKeys /\ Passes(key, origin)
        IN /\ props.n < MaxChanges
           /\ props' = [changed |-> props.changed \cup {key}, n |-> props.n + 1]
           /\ op' = [name |-> "change", key |-> key, origin |-> origin, fired |-> fired]
           /\ ret' = IF fired THEN ret \cup {key} ELSE ret
           /\ UNCHANGED <<chain, audioOutput, readers, client, mstate, threads>>

NextProps == PropertyChange

SpecProps == InitProps /\ [][NextProps]_vars

\* the side a key is changed from: the client for the keys of layer 0, the
\* SDR source for the others
OriginOf(key) == IF key \in LocalKeys THEN "client" ELSE "source"

(* C29: every consumed key, fft_fps and fft_voverlap_factor among them, is *)
(* shown by one of the three layers of the stack, and a change of a wired  *)
(* key, made on the side the key belongs to, calls its handler.            *)
ConsumedKeysVisible ==
    op.name = "change"
        => /\ op.key \in VisibleKeys
           /\ (op.key \in WiredKeys /\ op.origin = OriginOf(op.key))
                 => op.fired /\ op.key \in ret

\* the same for the keys the layers were built with
VisibleKeysFire ==
    (op.name = "change" /\ op.key \in WiredKeys \cap VisibleKeys /\ op.origin = OriginOf(op.key))
        => op.fired /\ op.key \in ret


(***************************************************************************)
(* The feature cache (feature.py 22-48) under has_requirement (lines       *)
(* 160-173): SpecFeatures.  mstate is FeatureCache.cache, props.now the    *)
(* clock datetime.now() reads, in hours; a detection method returns what   *)
(* it finds on the host at the time, either value.                         *)
(***************************************************************************)
MaxTime == 5
CacheTime == 2

\* requirements with a method has_<requirement>, and one without
Detectable == {"csdr", "sox"}
Requirements == Detectable \cup {"nonesuch"}

NoEntry == [present |-> FALSE]

\* mutant: an entry stays valid for ever
FeatureCache_hasAnyAge(cache, feature, now) == cache[feature].present

FeatureCache_has(cache, feature, now) ==
    IF ~cache[feature].present THEN FALSE
    ELSE IF cache[feature].valid_to < now THEN FALSE
    ELSE TRUE

FeatureCache_get(cache, feature) == cache[feature].value

FeatureCache_set(cache, feature, value, now) ==
    [cache EXCEPT ![feature] = [present |-> TRUE, value |-> value,
                                valid_to |-> now + CacheTime]]

_get_requirement_method(requirement) == requirement \in Detectable

\* found: what the detection method returns if it is run
has_requirement(cache, requirement, now, found) ==
    IF FeatureCache_has(cache, requirement, now)
    THEN [result |-> FeatureCache_get(cache, requirement), detected |-> FALSE, cache |-> cache]
    ELSE LET ran == _get_requirement_method(requirement)
             result == IF ran THEN found ELSE FALSE
         IN [result |-> result, detected |-> ran,
             cache |-> FeatureCache_set(cache, requirement, result, now)]

InitFeatures ==
    /\ chain = NoChain /\ audioOutput = "None"
    /\ readers = <<>> /\ client = <<>> /\ threads = <<>> /\ ret = <<>>
    /\ mstate = [r \in Requirements |-> NoEntry]
    /\ props = [now |-> 0]
    /\ op = [name |-> "__init__"]

FeaturesFrame == UNCHANGED <<chain, audioOutput, readers, client, threads, ret>>

\* an hour passes
Tick ==
    /\ props.now < MaxTime
    /\ props' = [now |-> props.now + 1]
    /\ op' = [name |-> "tick"]
    /\ UNCHANGED mstate
    /\ FeaturesFrame

HasRequirement ==
    \E r \in Requirements, found \in BOOLEAN :
        LET out == has_requirement(mstate, r, props.now, found)
        IN /\ props.now <= MaxTime
           /\ mstate' = out.cache
           /\ op' = [name |-> "has_requirement", arg |-> r, result |-> out.result,
                     detected |-> out.detected, found |-> found]
           /\ UNCHANGED props
           /\ FeaturesFrame

NextFeatures == Tick \/ HasRequirement

SpecFeatures == InitFeatures /\ [][NextFeatures]_vars

\* the entry of r was stored at most CacheTime ago
WithinValidity(r) == mstate[r].present /\ props.now <= mstate[r].valid_to

(* C30: while the entry of r is within its validity of two hours,          *)
(* has_requirement(r) returns the cached value, runs no detection and      *)
(* leaves the cache as it is; without an entry, or once the entry has      *)
(* expired, it runs the detection and stores the result with a validity of *)
(* two hours from now; a requirement without a detection method is stored  *)
(* and returned as unavailable.                                            *)
FeatureCacheValidity ==
    [][ op'.name = "has_requirement" =>
          LET r == op'.arg
          IN IF WithinValidity(r)
             THEN /\ ~op'.detected
                  /\ op'.result = mstate[r].value
                  /\ mstate' = mstate
             ELSE /\ op'.detected = (r \in Detectable)
                  /\ op'.result = (IF r \in Detectable THEN op'.found ELSE FALSE)
                  /\ mstate' = [mstate EXCEPT ![r] =
                                   [present |-> TRUE, value |-> op'.result,
                                    valid_to |-> props.now + CacheTime]] ]_vars

\* the entry of csdr expired and the detection was run again; the entry of
\* a requirement without a detection method says unavailable
FeatureCacheValidityWitness ==
    /\ op.name = "has_requirement" /\ op.arg = "csdr"
    /\ op.detected /\ op.result
    /\ props.now = CacheTime + 1
    /\ mstate["csdr"] = [present |-> TRUE, value |-> TRUE, valid_to |-> 2 * CacheTime + 1]
    /\ mstate["nonesuch"] = [present |-> TRUE, value |-> FALSE, valid_to |-> CacheTime]


(***************************************************************************)
(* ClientDemodulatorChain.stop (dsp.py 72-79) on chains with every primary *)
(* and secondary, after a change of the secondary or a stop: SpecStop      *)
(***************************************************************************)
CallStop ==
    /\ op.n < MaxCalls
    /\ Called(stop(BeginOp(chain)), "stop", "")

StopSetSecondaryDemodulator ==
    /\ chain.running
    /\ CallSetSecondaryDemodulator

NextStop == CallStop \/ StopSetSecondaryDemodulator

SpecStop == InitSetters /\ [][NextStop]_vars

\* the secondary selector holds a reader of the selector buffer
HoldsSelectorReader(c) ==
    c.secondarySelector # None /\ c.secondarySelector.reader = "selectorBuffer"

(* C31: after stop() the backbone stages, the secondary demodulator and    *)
(* the secondary FFT chain were stopped, the chain refers to no secondary  *)
(* demodulator, secondary FFT chain or secondary selector, so that no      *)
(* reader of theirs is left on the selector buffer; a second stop()        *)
(* changes no field.                                                       *)
StopCascades ==
    [][ op'.name = "stop"
        => /\ StagesOf(chain) \subseteq chain'.stopped
           /\ ~chain'.running
           /\ chain'.secondaryDemodulator = None
           /\ chain'.secondaryFftChain = None
           /\ ~HoldsSelectorReader(chain')
           /\ op.name = "stop" => Fields(chain') = Fields(chain) ]_vars

\* the same without the secondary selector
StopCascadesButSelector ==
    [][ op'.name = "stop"
        => /\ StagesOf(chain) \subseteq chain'.stopped
           /\ ~chain'.running
           /\ chain'.secondaryDemodulator = None
           /\ chain'.secondaryFftChain = None
           /\ op.name = "stop" => Fields(chain') = Fields(chain) ]_vars


(***************************************************************************)
(* The rates under setDemodulator, setSecondaryDemodulator, setOutputRate, *)
(* setHdOutputRate and setSecondaryFftSize only: SpecTaps                  *)
(***************************************************************************)
NextTaps ==
    \/ CallSetDemodulator
    \/ CallSetSecondaryDemodulator
    \/ CallSetOutputRate
    \/ CallSetHdOutputRate
    \/ CallSetSecondaryFftSize

SpecTaps == InitSetters /\ [][NextTaps]_vars

(* C32: with a primary in place, the output rate the selector was given    *)
(* last is the rate _getSelectorOutputRate derives from the primary, the   *)
(* secondary, outputRate and hdOutputRate as they are now.                 *)
SelectorRateConsistent ==
    (chain.demodulator # None /\ ~_getSelectorOutputRateRaises(chain))
        => chain.selector.outputRate = _getSelectorOutputRate(chain)

\* the same while no secondary with a fixed audio rate is in place
SelectorRateConsistentUnfixed ==
    (/\ chain.demodulator # None /\ ~_getSelectorOutputRateRaises(chain)
     /\ ~IsFixedAudioRateChain(chain.secondaryDemodulator))
        => chain.selector.outputRate = _getSelectorOutputRate(chain)


\* the onSecondaryDspRateChange notifications of the call that ran last
RateChanges(c) == SelectSeq(c.events, LAMBDA e : "rate" \in DOMAIN e)

\* the secondary FFT chain and the secondary selector of c work at the rate
\* the selector of c was given last
TapsAtSelectorRate(c) ==
    /\ c.secondaryFftChain # None => c.secondaryFftChain.sampleRate = c.selector.outputRate
    /\ c.secondarySelector # None => c.secondarySelector.rate = c.selector.outputRate

(* C33: after every call of setSecondaryDemodulator, setDemodulator,       *)
(* setOutputRate, setHdOutputRate and setSecondaryFftSize, a secondary FFT *)
(* chain and a secondary selector, where they exist, were last configured  *)
(* with the output rate last applied to the selector; and the rate last    *)
(* reported through onSecondaryDspRateChange is that rate: a call that     *)
(* reports reports it last, and a call that changes the selector's rate    *)
(* under a secondary FFT chain reports.                                    *)
TapRateConsistent ==
    [][ /\ TapsAtSelectorRate(chain')
        /\ RateChanges(chain') # <<>>
              => RateChanges(chain')[Len(RateChanges(chain'))].rate = chain'.selector.outputRate
        /\ (chain'.secondaryFftChain # None
            /\ chain'.selector.outputRate # chain.selector.outputRate)
              => RateChanges(chain') # <<>> ]_vars

\* the same for setSecondaryDemodulator alone
TapRateConsistentWhenSet ==
    [][ op'.name = "setSecondaryDemodulator"
        => /\ TapsAtSelectorRate(chain')
           /\ RateChanges(chain') # <<>>
                 => RateChanges(chain')[Len(RateChanges(chain'))].rate = chain'.selector.outputRate
           /\ (chain'.secondaryFftChain # None
               /\ chain'.selector.outputRate # chain.selector.outputRate)
                 => RateChanges(chain') # <<>> ]_vars


(***************************************************************************)
(* The property-driven setters on a chain without a primary, as            *)
(* stopDemodulator leaves it (dsp.py 133-146): SpecBare                    *)
(***************************************************************************)
\* stopDemodulator ran on a chain with any primary and secondary
BareChains == {Fields(stopDemodulator(c)) : c \in SetterChains}

InitBare ==
    /\ chain \in BareChains
    /\ op = [name |-> "init", n |-> 0, repeat |-> FALSE]
    /\ Unused

NextBare ==
    \/ CallSetOutputRate
    \/ CallSetHdOutputRate
    \/ CallSetSecondaryDemodulator
    \/ CallSetSquelchLevel
    \/ CallSetFrequencyOffset
    \/ CallSetCenterFrequency
    \/ CallSetWfmDeemphasisTau
    \/ CallSetRdsRbds
    \/ CallSetSlotFilter
    \/ CallSetAudioServiceId

SpecBare == InitBare /\ [][NextBare]_vars

\* the state stopDemodulator leaves: no primary, a dummy at index 1
WithoutPrimary(c) == c.demodulator = None /\ c.workers1.dummy

(* C34: on a chain without a primary, with the dummy at index 1, each of   *)
(* setOutputRate, setHdOutputRate, setSecondaryDemodulator,                *)
(* setSquelchLevel, setFrequencyOffset, setCenterFrequency,                *)
(* setWfmDeemphasisTau, setRdsRbds, setSlotFilter and setAudioServiceId    *)
(* runs to its end: no exception leaves it, and it leaves the chain        *)
(* without a primary.                                                      *)
SettersSafeWithoutPrimary ==
    [][ WithoutPrimary(chain)
        => /\ chain'.exc = "none"
           /\ WithoutPrimary(chain') ]_vars

\* the same for the setters other than setOutputRate
OtherSettersSafeWithoutPrimary ==
    [][ (WithoutPrimary(chain) /\ op'.name # "setOutputRate")
        => /\ chain'.exc = "none"
           /\ WithoutPrimary(chain') ]_vars

(***************************************************************************)
(* The secondary demodulator across a change of mode (dsp.py 636-662),     *)
(* under Spec.  Every mode of the model has its requirements available.    *)
(***************************************************************************)
\* the handler of props["mod"] ran to its end and reported no error
ModChangeSucceeds == op'.name = "mod" /\ op'.exc = "none" /\ client'.errors = 0

\* lines 656-658: secondary_mod names a digital mode over the new mod
Overlays(p) == p.mod \in Underlying(p.secondary_mod)

NoSecondaryActive(c) ==
    /\ c.secondaryDemodulator = None
    /\ c.secondarySelector = None
    /\ c.secondaryFftChain = None

(* C35: after DspManager.setDemodulator(mod) succeeded a secondary         *)
(* demodulator is active if and only if secondary_mod names a digital mode *)
(* whose underlying list contains mod; in every other case no secondary    *)
(* demodulator, secondary selector or secondary FFT chain is active.       *)
SecondaryRestoration ==
    [][ ModChangeSucceeds
        => IF Overlays(props')
           THEN /\ chain'.secondaryDemodulator # None
                /\ chain'.secondaryDemodulator.caps = SecondaryClassOf(props'.secondary_mod)
           ELSE NoSecondaryActive(chain') ]_vars

\* the same for the changes of mode that find a primary in place
SecondaryRestorationOfPrimary ==
    [][ (ModChangeSucceeds /\ chain.demodulator # None)
        => IF Overlays(props')
           THEN /\ chain'.secondaryDemodulator # None
                /\ chain'.secondaryDemodulator.caps = SecondaryClassOf(props'.secondary_mod)
           ELSE NoSecondaryActive(chain') ]_vars

(***************************************************************************)
(* The manager after stop(): SpecStopped.  start(), the events of the      *)
(* source and the changes of mod arrive in any order, before and after     *)
(* stop(); an event of the source that was under way when stop() removed   *)
(* the manager from the source's clients is still delivered.               *)
(***************************************************************************)
\* the handlers that call stop(): onStateChange(STOPPING), lines 927-930,
\* and onFail, lines 932-934, while the source lists the manager;
\* onShutdown, lines 936-937, when the connection ends, whatever the source
\* did
StopHandler ==
    \E h \in ShutdownHandlers :
        LET ms == IF h = "onStateChange" THEN [mstate EXCEPT !.source = "STOPPING"]
                  ELSE mstate
        IN /\ h # "onShutdown" => mstate.client
           /\ h = "onStateChange" => mstate.source # "STOPPING"
           /\ mstate' = DspManager_stop([chain |-> chain, readers |-> readers,
                                         mstate |-> ms]).mstate
           /\ chain' = NoChain
           /\ readers' = [t \in Channels |-> 0]
           /\ op' = [op EXCEPT !.name = h,
                               !.arg = IF h = "onStateChange" THEN "STOPPING" ELSE "",
                               !.exc = "none", !.attached = FALSE]
           /\ UNCHANGED <<audioOutput, props, client, ret, threads>>

\* the source goes to another state and tells its clients; RUNNING reaches
\* lines 923-926, and STOPPING reaches a client in StopHandler
SourceChanges ==
    \E state \in SdrSourceStates \ {mstate.source} :
        LET ms == [mstate EXCEPT !.source = state]
            told == mstate.client /\ state = "RUNNING"
        IN /\ state = "STOPPING" => ~mstate.client
           /\ mstate' = IF told THEN onStateChange_running(ms) ELSE ms
           /\ op' = [op EXCEPT !.name = "onStateChange", !.arg = state, !.exc = "none",
                               !.attached = mstate'.attached # mstate.attached,
                               !.deferred = @ /\ ~told]
           /\ UNCHANGED <<chain, audioOutput, readers, props, client, ret, threads>>

\* lines 922-926 on a manager the source no longer lists
LateStateChange ==
    LET raises == mstate.startOnAvailable /\ chain = NoChain
    IN /\ ~mstate.client
       /\ mstate' = IF raises THEN mstate ELSE onStateChange_running(mstate)
       /\ op' = [op EXCEPT !.name = "onStateChange", !.arg = "RUNNING",
                           !.exc = IF raises THEN "AttributeError" ELSE "none",
                           !.attached = mstate'.attached # mstate.attached]
       /\ UNCHANGED <<chain, audioOutput, readers, props, client, ret, threads>>

\* the manager as a write that calls no handler leaves it
Unhandled ==
    [chain |-> chain, audioOutput |-> audioOutput, readers |-> readers,
     props |-> props, client |-> client, mstate |-> mstate, exc |-> "none"]

Written(m, mod) ==
    /\ Installed(m)
    /\ op' = [op EXCEPT !.name = "mod", !.arg = mod, !.exc = m.exc, !.attached = FALSE]

\* setProperty("mod", mod), lines 912-917: the write reaches setDemodulator
\* through the subscription of line 541 while that stands
ModWritten ==
    \E mod \in PrimaryMods \cup {UnknownMod} :
        /\ Written(IF mstate.subscribed
                   THEN DspManager_setDemodulator(
                           [Manager EXCEPT !.props.mod = mod], mod, FALSE)
                   ELSE [Unhandled EXCEPT !.props.mod = mod], mod)
        /\ UNCHANGED <<ret, threads>>

NextStopped ==
    \/ Start
    \/ SourceChanges
    \/ StopHandler
    \/ LateStateChange
    \/ ModWritten

SpecStopped == InitStart /\ [][NextStopped]_vars

\* the step is a run of stop(): onFail, onShutdown or onStateChange(STOPPING)
\* on a manager it reaches
StopRuns ==
    \/ op'.name \in {"onFail", "onShutdown"}
    \/ op'.name = "onStateChange" /\ op'.arg = "STOPPING" /\ mstate.client

\* what stop() leaves of the manager
Dropped(c, r, ms) ==
    /\ c = NoChain
    /\ \A t \in Channels : r[t] = 0
    /\ ms.live = {}
    /\ ~ms.startOnAvailable
    /\ ~ms.client
    /\ ~ms.subscribed
    /\ ~ms.rigControl

(* C36: after DspManager.stop() the deferral flag is clear, the chain is   *)
(* dropped and the subscriptions are cancelled; no later                   *)
(* onStateChange(RUNNING) gives a reader of the source's buffer to         *)
(* anything, no later change of a property reaches a handler, and a        *)
(* second stop() raises nothing and changes nothing.                       *)
StoppedStaysStopped ==
    [][ /\ StopRuns => /\ Dropped(chain', readers', mstate') /\ op'.exc = "none"
                       /\ Dropped(chain, readers, mstate)
                             => <<chain, readers, mstate>>' = <<chain, readers, mstate>>
        /\ chain = NoChain
              => /\ chain' = NoChain
                 /\ (op'.name = "onStateChange" /\ op'.arg = "RUNNING")
                       => /\ mstate'.attached = mstate.attached
                          /\ readers' = readers
                 /\ op'.name = "mod"
                       => /\ op'.exc = "none"
                          /\ <<readers, mstate, client, audioOutput>>'
                                = <<readers, mstate, client, audioOutput>> ]_vars

\* a start() was waiting for the source when stop() ran; RUNNING came after
StoppedStaysStoppedWitness ==
    /\ op.name = "onStateChange" /\ op.arg = "RUNNING"
    /\ op.deferred /\ ~op.attached /\ op.exc = "none"
    /\ chain = NoChain
    /\ mstate.attached = 0
    /\ ~mstate.client
    /\ mstate.source = "STOPPING"
    /\ props.mod = "usb"

(***************************************************************************)
(* The lookups of the mode registry, called in any order while the         *)
(* requirements come and go: SpecModes.  mstate is the set of requirements *)
(* that are found, op the last call: the mode it was called on, its        *)
(* argument, what it raised and what it returned.                          *)
(***************************************************************************)
\* the tokens of the registry, the token of EmptyMode and one of no mode
ModeTokens == {mode.modulation : mode \in ElementsOf(Modes_mappings)} \cup {"empty", UnknownMod}

DigitalModes == {mode \in ElementsOf(Modes_mappings) : IsDigitalMode(mode)}

InitModes ==
    /\ chain = NoChain /\ audioOutput = "None"
    /\ readers = <<>> /\ client = <<>> /\ threads = <<>> /\ ret = <<>>
    /\ props = <<>>
    /\ mstate \in SUBSET ModeRequirements
    /\ op = [name |-> "__init__", self |-> None, arg |-> "", raised |-> "none",
             value |-> None]

ModesFrame == UNCHANGED <<chain, audioOutput, readers, client, threads, ret, props>>

\* a requirement is installed or removed, and the detector finds it so
RequirementChanges ==
    \E r \in ModeRequirements :
        /\ mstate' = IF r \in mstate THEN mstate \ {r} ELSE mstate \cup {r}
        /\ op' = [name |-> "requirement", self |-> None, arg |-> r, raised |-> "none",
                  value |-> None]
        /\ ModesFrame

CallForUnderlying ==
    \E self \in DigitalModes, underlying \in ModeTokens :
        /\ op' = [name |-> "for_underlying", self |-> self, arg |-> underlying,
                  raised |-> for_underlying(self, underlying).raised,
                  value |-> for_underlying(self, underlying).value]
        /\ UNCHANGED mstate
        /\ ModesFrame

CallFindByModulation ==
    \E modulation \in ModeTokens :
        /\ op' = [name |-> "findByModulation", self |-> None, arg |-> modulation,
                  raised |-> "none", value |-> findByModulation(mstate, modulation)]
        /\ UNCHANGED mstate
        /\ ModesFrame

CallGetModulation ==
    \E self \in ElementsOf(Modes_mappings) :
        /\ op' = [name |-> "get_modulation", self |-> self, arg |-> "",
                  raised |-> "none", value |-> get_modulation(mstate, self)]
        /\ UNCHANGED mstate
        /\ ModesFrame

NextModes ==
    \/ RequirementChanges
    \/ CallForUnderlying
    \/ CallFindByModulation
    \/ CallGetModulation

SpecModes == InitModes /\ [][NextModes]_vars

\* the attributes of a mode other than its underlying list
CopiedAttributes ==
    {"modulation", "name", "bandpass", "ifRate", "requirements", "service", "squelch",
     "secondaryFft"}

(* C37: for a digital mode m and u in m.underlying, m.for_underlying(u)    *)
(* returns a mode equal to m in modulation, name, bandpass, ifRate,        *)
(* requirements, service, squelch and secondaryFft whose underlying list   *)
(* is [u]; for any other u it raises an error and returns nothing.         *)
ForUnderlyingCopies ==
    op.name = "for_underlying" =>
        IF op.arg \in ElementsOf(op.self.underlying)
        THEN /\ op.raised = "none"
             /\ \A attribute \in CopiedAttributes : op.value[attribute] = op.self[attribute]
             /\ op.value.underlying = <<op.arg>>
        ELSE /\ op.raised # "none"
             /\ op.value = None

\* the same without secondaryFft
ForUnderlyingCopiesButFft ==
    op.name = "for_underlying" =>
        IF op.arg \in ElementsOf(op.self.underlying)
        THEN /\ op.raised = "none"
             /\ \A attribute \in CopiedAttributes \ {"secondaryFft"} :
                   op.value[attribute] = op.self[attribute]
             /\ op.value.underlying = <<op.arg>>
        ELSE /\ op.raised # "none"
             /\ op.value = None

\* the places of the registry whose entry has the modulation and all the
\* requirements of all its features found
AvailableAt(modulation) ==
    {i \in DOMAIN Modes_mappings :
        /\ Modes_mappings[i].modulation = modulation
        /\ \A f \in ElementsOf(Modes_mappings[i].requirements) :
              ElementsOf(FeatureDetector_features[f]) \subseteq mstate}

(* C38: findByModulation(t) returns the first entry of the registry whose  *)
(* modulation is t and whose requirements are all available, and nothing   *)
(* when there is none; the modulation of a DigitalMode whose first         *)
(* underlying mode is not found is "empty".                                *)
LookupRespectsAvailability ==
    /\ op.name = "findByModulation" =>
          IF AvailableAt(op.arg) = {} THEN op.value = None
          ELSE op.value = Modes_mappings[CHOOSE i \in AvailableAt(op.arg) :
                                            \A j \in AvailableAt(op.arg) : i <= j]
    /\ ( /\ op.name = "get_modulation"
         /\ IsDigitalMode(op.self)
         /\ AvailableAt(op.self.underlying[1]) = {} ) => op.value = "empty"

\* ft8 is looked up while wsjtx is not found, all the rest being there
LookupRespectsAvailabilityWitness ==
    /\ op.name = "findByModulation"
    /\ op.arg = "ft8"
    /\ mstate = ModeRequirements \ {"wsjtx"}
    /\ op.value = None

============================================================================
